---- MODULE Spec2Model ----
(***************************************************************************)
(* png2icons: a model of the PackBits channel codec (lib/icns-encoder.js)  *)
(* and of the createICNS / createICO pipeline with its process-wide image  *)
(* caches (png2icons.ts).                                                  *)
(*                                                                         *)
(* Two specifications:                                                     *)
(*   SpecPB  the PackBits codec applied to bounded byte sequences          *)
(*   Spec    sequences of createICNS / createICO / clearCache calls        *)
(***************************************************************************)
EXTENDS Integers, Sequences, FiniteSets, TLC

VARIABLES
    \* ---- helper functions applied to bounded inputs (SpecFn) ----
    fnPc,                \* "off" | "in" | "out"
    fnIn,                \* the arguments: [op, ...]
    fnOut,               \* what the function returned
    \* ---- PackBits codec (SpecPB) ----
    pbPc,                \* "in" | "encoded" | "decoded", or the place in a loop
    pbIn,                \* the input buffer given to encode
    pbEnc,               \* encode(pbIn)
    pbDec,               \* decode(pbEnc)
    pbI,                 \* i of the loop of encode / decode that is running
    pbBufs,              \* bufs of the loop of encode / decode that is running
    \* ---- module state of png2icons.ts (Spec) ----
    currentImage,        \* the "current input" slot (Null or an input buffer)
    scaledImageCache,    \* sequence of [width, height, data]
    scaledPNGImageCache, \* sequence of [Width, Height, Data]
    \* ---- the create call in progress ----
    pc,                  \* "idle" | "icns" | "ico"
    call,                \* parameters of the running / last call
    idx,                 \* 1-based index of the next chunk / entry to build
    srcImage,            \* the quadratic source image of the call
    outBuffer,           \* createICNS: the buffer built so far
    icoDirectory,        \* createICO: ICONDIR + the entries written so far
    icoChunkImages,      \* createICO: the payload buffers collected so far
    totalLength,         \* createICO: running total length
    chunkOffset,         \* createICO: running payload offset
    result,              \* outcome of the last finished call
    log,                 \* LogMessage events of the running / last call
    ops,                 \* cache clears, resamples and PNG encodes of that call
    nCalls,              \* number of create calls started
    hist,                \* "fresh", or the one input every call so far was given,
                         \* or "mixed" after different inputs or a clearCache
    coldStart            \* both tables were empty when the running / last call
                         \* had passed checkCache

fnVars   == <<fnPc, fnIn, fnOut>>
pbVars   == <<pbPc, pbIn, pbEnc, pbDec, pbI, pbBufs>>
cacheVars == <<currentImage, scaledImageCache, scaledPNGImageCache>>
callVars == <<pc, call, idx, srcImage, outBuffer, icoDirectory, icoChunkImages,
              totalLength, chunkOffset, result, log, ops, nCalls, hist, coldStart>>
vars     == <<fnVars, pbVars, cacheVars, callVars>>

Null == "null"

Min(a, b) == IF a < b THEN a ELSE b
Max(a, b) == IF a > b THEN a ELSE b

(***************************************************************************)
(* Node.js Buffer / JS array primitives used by the codec.  Indexes are    *)
(* 0-based as in the source; a buffer is a sequence of bytes.              *)
(***************************************************************************)
\* buffer[k]
At(buffer, k) == buffer[k + 1]

\* buffer.slice(start, end): both ends are clamped to the buffer's length
Slice(buffer, start, end) ==
    LET s == Min(start, Len(buffer))
        e == Min(end, Len(buffer))
    IN  IF e <= s THEN <<>> ELSE SubSeq(buffer, s + 1, e)

\* Buffer.alloc(n, fill) with a one-byte fill buffer (an empty fill leaves zeroes)
AllocFill(n, fill) ==
    [k \in 1..n |-> IF fill = <<>> THEN 0 ELSE fill[1]]

\* Buffer.concat(list, totalLength) where totalLength is the sum of the lengths
RECURSIVE ConcatBufs(_)
ConcatBufs(bufs) ==
    IF bufs = <<>> THEN <<>> ELSE Head(bufs) \o ConcatBufs(Tail(bufs))

(***************************************************************************)
(* lib/icns-encoder.js: encode                                             *)
(***************************************************************************)
\* the cap of a repeat run and of a literal run
MaxRepeat  == 130
MaxLiteral == 128

\* The two scan loops are run one iteration at a time: a loop state carries
\* the loop's variables and "done" once the loop has been left.  Steps(n)
\* applies the step up to n times, stopping when the loop is left (split in
\* halves to keep the evaluation shallow, the state "mid" after the first
\* half being bound as a value so that it is computed once); a loop over a
\* buffer takes fewer iterations than the buffer has bytes.

\* variant: the run is cut one byte after the cap
RepeatStep_LateCap(buffer, byte, s) ==
    IF s.done THEN s
    ELSE IF s.j + 1 < Len(buffer) /\ byte = At(buffer, s.j + 1) /\ s.length <= MaxRepeat
         THEN [s EXCEPT !.j = s.j + 1, !.length = s.length + 1]
         ELSE [s EXCEPT !.j = s.j + 1, !.done = TRUE]

\* while (++j < buffer.length && byte === buffer[j] && length < 130) length++;
RepeatStep(buffer, byte, s) ==
    IF s.done THEN s
    ELSE IF s.j + 1 < Len(buffer) /\ byte = At(buffer, s.j + 1) /\ s.length < MaxRepeat
         THEN [s EXCEPT !.j = s.j + 1, !.length = s.length + 1]
         ELSE [s EXCEPT !.j = s.j + 1, !.done = TRUE]

RECURSIVE RepeatSteps(_, _, _, _)
RepeatSteps(buffer, byte, s, n) ==
    IF s.done \/ n = 0 THEN s
    ELSE IF n = 1 THEN RepeatStep(buffer, byte, s)
    ELSE CHOOSE end \in
             {IF mid.done THEN mid ELSE RepeatSteps(buffer, byte, mid, n - (n \div 2)) :
                 mid \in {RepeatSteps(buffer, byte, s, n \div 2)}} : TRUE

RepeatScan(buffer, byte, j, length) ==
    RepeatSteps(buffer, byte, [j |-> j, length |-> length, done |-> FALSE], Len(buffer))

\* while (++j < buffer.length && length < 128) { ... } of the literal branch;
\* the break leaves the loop with repeatLength = 3 and length not incremented
LiteralStep(buffer, s) ==
    IF s.done THEN s
    ELSE IF s.j + 1 < Len(buffer) /\ s.length < MaxLiteral
         THEN IF s.prev = At(buffer, s.j + 1)
              THEN IF s.repeatLength + 1 > 2
                   THEN [s EXCEPT !.j = s.j + 1, !.repeatLength = s.repeatLength + 1,
                                  !.done = TRUE]
                   ELSE [s EXCEPT !.j = s.j + 1, !.repeatLength = s.repeatLength + 1,
                                  !.length = s.length + 1]
              ELSE [s EXCEPT !.j = s.j + 1, !.prev = At(buffer, s.j + 1),
                             !.repeatLength = 1, !.length = s.length + 1]
         ELSE [s EXCEPT !.j = s.j + 1, !.done = TRUE]

RECURSIVE LiteralSteps(_, _, _)
LiteralSteps(buffer, s, n) ==
    IF s.done \/ n = 0 THEN s
    ELSE IF n = 1 THEN LiteralStep(buffer, s)
    ELSE CHOOSE end \in
             {IF mid.done THEN mid ELSE LiteralSteps(buffer, mid, n - (n \div 2)) :
                 mid \in {LiteralSteps(buffer, s, n \div 2)}} : TRUE

LiteralScan(buffer, j, length, prev, repeatLength) ==
    LiteralSteps(buffer, [j |-> j, length |-> length, prev |-> prev,
                          repeatLength |-> repeatLength, done |-> FALSE], Len(buffer))

\* variant: steps back over the detected repeat but keeps its bytes in the count
LiteralEnd_KeepLength(buffer, i) ==
    LET s == LiteralScan(buffer, i + 2, 3, At(buffer, i + 2), 1)
    IN  IF s.repeatLength > 2
        THEN [j |-> s.j - 2, length |-> s.length]
        ELSE [j |-> s.j, length |-> s.length]

\* the literal branch after the scan: step back over a detected repeat
LiteralEnd(buffer, i) ==
    LET s == LiteralScan(buffer, i + 2, 3, At(buffer, i + 2), 1)
    IN  IF s.repeatLength > 2
        THEN [j |-> s.j - 2, length |-> s.length - 2]
        ELSE [j |-> s.j, length |-> s.length]

\* the list "bufs" collected by encode's outer loop, from position i on
RECURSIVE EncodeBufs(_, _)
\* variant: the tail record's header is its payload length - 1
EncodeBufs_TailMinusOne(buffer, i) ==
    IF ~(i < Len(buffer)) THEN <<>>
    ELSE LET byte == At(buffer, i) IN
         IF i + 2 >= Len(buffer)
         THEN << <<(Len(buffer) - i - 1) % 256>>, Slice(buffer, i, Len(buffer)) >>
         ELSE IF byte = At(buffer, i + 1) /\ byte = At(buffer, i + 2)
              THEN LET s == RepeatScan(buffer, byte, i + 2, 3)
                   IN  << <<(s.length + 128 - 3) % 256, byte>> >>
                       \o EncodeBufs(buffer, s.j)
              ELSE LET e == LiteralEnd(buffer, i)
                   IN  << <<(e.length - 1) % 256>>, Slice(buffer, i, e.j) >>
                       \o EncodeBufs(buffer, e.j)

EncodeBufs(buffer, i) ==
    IF ~(i < Len(buffer)) THEN <<>>
    ELSE LET byte == At(buffer, i) IN
         IF i + 2 >= Len(buffer)
         THEN << <<(Len(buffer) - i) % 256>>, Slice(buffer, i, Len(buffer)) >>
         ELSE IF byte = At(buffer, i + 1) /\ byte = At(buffer, i + 2)
              THEN LET s == RepeatScan(buffer, byte, i + 2, 3)
                   IN  << <<(s.length + 128 - 3) % 256, byte>> >>
                       \o EncodeBufs(buffer, s.j)
              ELSE LET e == LiteralEnd(buffer, i)
                   IN  << <<(e.length - 1) % 256>>, Slice(buffer, i, e.j) >>
                       \o EncodeBufs(buffer, e.j)

encode(buffer) == ConcatBufs(EncodeBufs(buffer, 0))

\* one pass of the body of encode's outer loop at position i < buffer.length:
\* the buffers pushed, the position after the pass and whether the pass left
\* the loop with break
EncodeIter(buffer, i) ==
    LET byte == At(buffer, i) IN
    IF i + 2 >= Len(buffer)
    THEN [bufs  |-> << <<(Len(buffer) - i) % 256>>, Slice(buffer, i, Len(buffer)) >>,
          i     |-> i,
          break |-> TRUE]
    ELSE IF byte = At(buffer, i + 1) /\ byte = At(buffer, i + 2)
         THEN LET s == RepeatScan(buffer, byte, i + 2, 3)
              IN  [bufs  |-> << <<(s.length + 128 - 3) % 256, byte>> >>,
                   i     |-> s.j,
                   break |-> FALSE]
         ELSE LET e == LiteralEnd(buffer, i)
              IN  [bufs  |-> << <<(e.length - 1) % 256>>, Slice(buffer, i, e.j) >>,
                   i     |-> e.j,
                   break |-> FALSE]

(***************************************************************************)
(* lib/icns-encoder.js: decode                                             *)
(***************************************************************************)
RECURSIVE DecodeBufs(_, _)
DecodeBufs(buffer, i) ==
    IF ~(i < Len(buffer)) THEN <<>>
    ELSE LET length == At(buffer, i) IN
         IF length >= 128
         THEN << AllocFill(length - 128 + 3, Slice(buffer, i + 1, i + 2)) >>
              \o DecodeBufs(buffer, i + 2)
         ELSE << Slice(buffer, i + 1, i + length + 2) >>
              \o DecodeBufs(buffer, i + length + 2)

decode(buffer) == ConcatBufs(DecodeBufs(buffer, 0))

\* variant: a repeat record moves the position by 1
DecodeIter_ShortAdvance(buffer, i) ==
    LET length == At(buffer, i) IN
    IF length >= 128
    THEN [buf |-> AllocFill(length - 128 + 3, Slice(buffer, i + 1, i + 2)), i |-> i + 1]
    ELSE [buf |-> Slice(buffer, i + 1, i + length + 2), i |-> i + length + 2]

\* one pass of the body of decode's loop at position i < buffer.length: the
\* buffer pushed and the position after the pass
DecodeIter(buffer, i) ==
    LET length == At(buffer, i) IN
    IF length >= 128
    THEN [buf |-> AllocFill(length - 128 + 3, Slice(buffer, i + 1, i + 2)), i |-> i + 2]
    ELSE [buf |-> Slice(buffer, i + 1, i + length + 2), i |-> i + length + 2]

(***************************************************************************)
(* IEEE-754 double arithmetic of Math.floor(h * (d / w)) for positive      *)
(* integers below 2^15, as getStretchedRect computes it.                   *)
(*   d / w is rounded to a 53-bit significand m * 2^-e; with               *)
(*   r = (d * 2^e) mod w the quotient is rounded down by r / (w * 2^e)     *)
(*   when 2r < w and rounded up otherwise.  When w divides h*d, the exact  *)
(*   product is the integer n = h*d/w; h * fl(d/w) then lies below n by    *)
(*   h*r / (w*2^e) and is rounded to a double below n exactly when that    *)
(*   distance exceeds half the spacing of the doubles below n.  When w     *)
(*   does not divide h*d the exact quotient is at least 1/w away from an   *)
(*   integer and the rounding errors cannot change its floor.              *)
(***************************************************************************)
RECURSIVE Pow2(_)
Pow2(k) == IF k <= 0 THEN 1 ELSE 2 * Pow2(k - 1)

\* 2^k mod w
RECURSIVE Pow2Mod(_, _)
Pow2Mod(k, w) ==
    IF k = 0 THEN 1 % w
    ELSE LET half == Pow2Mod(k \div 2, w)
             sq   == (half * half) % w
         IN  IF k % 2 = 0 THEN sq ELSE (2 * sq) % w

\* floor(log2(n)) for n >= 1
RECURSIVE FloorLog2(_)
FloorLog2(n) == IF n < 2 THEN 0 ELSE 1 + FloorLog2(n \div 2)

\* floor(log2(a / b)) for a, b >= 1
RECURSIVE FloorLog2Ratio(_, _)
FloorLog2Ratio(a, b) ==
    IF a >= 2 * b THEN 1 + FloorLog2Ratio(a, 2 * b)
    ELSE IF a < b THEN FloorLog2Ratio(2 * a, b) - 1
    ELSE 0

IsPow2(n) == n = Pow2(FloorLog2(n))

\* Math.floor(h * (d / w))
FloorMulDiv(h, d, w) ==
    IF (h * d) % w # 0 THEN (h * d) \div w
    ELSE LET n  == (h * d) \div w
             q  == FloorLog2Ratio(d, w)
             e  == 52 - q
             r  == ((d % w) * Pow2Mod(e, w)) % w
             k  == FloorLog2(n) - q - (IF IsPow2(n) THEN 2 ELSE 1)
             roundedDown == r # 0 /\ 2 * r < w
             below == IF k >= 0 THEN h * r > w * Pow2(k)
                                ELSE h * r * Pow2(0 - k) > w
         IN  IF roundedDown /\ below THEN n - 1 ELSE n

\* Math.floor(j / (d / s)) for integers j >= 0 and d, s >= 1 below 2^15.
\* d / s is rounded to m * 2^-e; when d divides j*s the exact quotient is the
\* integer n = j*s/d, and j / fl(d/s) lies below n only when d / s was rounded
\* up, by n * (s - r) / (d * 2^e + s - r) with r = (d * 2^e) mod s; the
\* division is then rounded to a double below n exactly when that distance
\* exceeds half the spacing of the doubles below n.
FloorDivDiv(j, d, s) ==
    IF j = 0 THEN 0
    ELSE IF (j * s) % d # 0 THEN (j * s) \div d
    ELSE LET n  == (j * s) \div d
             q  == FloorLog2Ratio(d, s)
             e  == 52 - q
             r  == ((d % s) * Pow2Mod(e, s)) % s
             k  == FloorLog2(n) - q - (IF IsPow2(n) THEN 2 ELSE 1)
             roundedUp == r # 0 /\ 2 * r > s
             below == IF k >= 0 THEN n * (s - r) > d * Pow2(k)
                                ELSE n * (s - r) * Pow2(0 - k) > d
         IN  IF roundedUp /\ below THEN n - 1 ELSE n

\* Math.floor(a / 2) for an integer a (possibly negative)
FloorHalf(a) == IF a >= 0 THEN a \div 2 ELSE 0 - ((1 - a) \div 2)

(***************************************************************************)
(* png2icons.ts: rectangles                                                *)
(***************************************************************************)
getRect(left, top, width, height) ==
    [Left |-> left, Top |-> top, Width |-> width, Height |-> height]

\* src.Width / src.Height >= dst.Width / dst.Height: both quotients are
\* correctly rounded, and rounding is monotonic, so the comparison of the
\* doubles can only differ from the exact one by making two different
\* quotients equal, which needs them to agree to 53 bits; for sides below
\* 2^15 two different quotients differ by more than that.
getStretchedRect(src, dst) ==
    IF src.Width * dst.Height >= dst.Width * src.Height
    THEN LET tmp == FloorMulDiv(src.Height, dst.Width, src.Width)
         IN  [Left |-> 0, Width |-> dst.Width,
              Top |-> FloorHalf(dst.Height - tmp), Height |-> tmp]
    ELSE LET tmp == FloorMulDiv(src.Width, dst.Height, src.Height)
         IN  [Top |-> 0, Height |-> dst.Height,
              Left |-> FloorHalf(dst.Width - tmp), Width |-> tmp]

(***************************************************************************)
(* Buffers of the container code.  A buffer is a sequence of fields        *)
(* [f, v, n]: a value v written with the method f, occupying n bytes.      *)
(* Bitmaps and encoded payloads are carried as values that record what     *)
(* they were computed from; "bytes" fields hold them.                      *)
(***************************************************************************)
Field(f, v, n) == [f |-> f, v |-> v, n |-> n]
Ascii(str)  == Field("ascii", str, 4)      \* buf.write(<4 characters>, offset)
UInt32BE(v) == Field("u32be", v, 4)
UInt32LE(v) == Field("u32le", v, 4)
Int32LE(v)  == Field("i32le", v, 4)
UInt16LE(v) == Field("u16le", v, 2)
UInt8(v)    == Field("u8", v, 1)
Zero(n)     == Field("zero", 0, n)         \* bytes left as allocated
Bytes(v, n) == Field("bytes", v, n)        \* Buffer.from(<payload>)

\* the bytes of the fields lo..hi of a buffer (summed by halves)
RECURSIVE FieldBytes(_, _, _)
FieldBytes(buf, lo, hi) ==
    IF lo > hi THEN 0
    ELSE IF lo = hi THEN buf[lo].n
    ELSE LET mid == (lo + hi) \div 2
         IN  FieldBytes(buf, lo, mid) + FieldBytes(buf, mid + 1, hi)

\* buf.length
BufLen(buf) == FieldBytes(buf, 1, Len(buf))

\* byte offset of the k-th field
FieldOffset(buf, k) == FieldBytes(buf, 1, k - 1)

\* buf.writeXXX(v, offset): overwrites the field that starts at the offset
WriteField(buf, offset, fld) ==
    [k \in DOMAIN buf |-> IF FieldOffset(buf, k) = offset THEN fld ELSE buf[k]]

\* the first "total" bytes of a buffer (a field cut in two keeps its head)
Truncate(buf, total) ==
    LET whole == Cardinality({k \in DOMAIN buf : FieldBytes(buf, 1, k) <= total})
        rest  == total - FieldBytes(buf, 1, whole)
    IN  IF whole < Len(buf) /\ rest > 0
        THEN Append(SubSeq(buf, 1, whole), Field("cut", buf[whole + 1], rest))
        ELSE SubSeq(buf, 1, whole)

\* Buffer.concat(list, totalLength): the buffers in order, cut or zero-filled
\* to totalLength bytes
Concat(list, total) ==
    LET all == ConcatBufs(list)
    IN  IF BufLen(all) = total THEN all
        ELSE IF BufLen(all) < total THEN Append(all, Zero(total - BufLen(all)))
        ELSE Truncate(all, total)

(***************************************************************************)
(* png2icons.ts: constants                                                 *)
(***************************************************************************)
MAX_COLORS == 256
NEAREST_NEIGHBOR == 0
BILINEAR == 1
BICUBIC == 2
BEZIER == 3
HERMITE == 4
BICUBIC2 == 5
BITMAPINFOHEADERLENGTH == 40

\* (numOfColors < 0) ? 0 : ((numOfColors > MAX_COLORS) ? MAX_COLORS : numOfColors)
ClampColors(numOfColors) ==
    IF numOfColors < 0 THEN 0
    ELSE IF numOfColors > MAX_COLORS THEN MAX_COLORS ELSE numOfColors

(***************************************************************************)
(* Inputs.  An input buffer is named by its content; UPNG.decode either    *)
(* throws or yields the dimensions of the picture.  The pixels themselves  *)
(* are not modelled here: a bitmap is the record of how it was computed.   *)
(***************************************************************************)
Inputs == {"png98x49", "png64x64", "notapng", Null}

UPNG_decodable(input) == input \in {"png98x49", "png64x64"}

UPNG_decode(input) ==
    CASE input = "png98x49" -> [width |-> 98, height |-> 49]
      [] input = "png64x64" -> [width |-> 64, height |-> 64]

\* input.compare(other) !== 0
BuffersDiffer(a, b) == a # b

\* a number that depends on how a bitmap was computed (its content)
RECURSIVE Digest(_)
Digest(data) ==
    CASE data.kind = "decoded" -> (IF data.input = "png98x49" THEN 3 ELSE 5)
      [] data.kind = "padded"  -> 1 + Digest(data.of)
      [] data.kind = "scaled"  -> 2 * Digest(data.src) + data.alg + data.width + data.height

\* the scaling algorithms the resize libraries implement; any other number
\* selects bicubicInterpolation
Resample(src, width, height, scalingAlgorithm) ==
    [kind |-> "scaled", src |-> src.data, width |-> width, height |-> height,
     alg |-> IF scalingAlgorithm \in {NEAREST_NEIGHBOR, BILINEAR, BICUBIC, BEZIER,
                                      HERMITE, BICUBIC2}
             THEN scalingAlgorithm ELSE BICUBIC]

\* UPNG.encode([rgba], width, height, cnum, [], true)
UPNG_encode(rgba, width, height, cnum) ==
    [kind |-> "png", rgba |-> rgba, width |-> width, height |-> height, cnum |-> cnum]

\* the byteLength of an encoded PNG: depends on content, size and colour count
PNGByteLength(png) ==
    67 + ((Digest(png.rgba) + png.cnum + png.width) % 23) + (png.width * png.height) \div 16

\* the length of encode(channel) for a channel of n bytes of a bitmap
PackBitsLength(data, channelIndex, n) ==
    2 * ((n + MaxRepeat - 1) \div MaxRepeat) + ((Digest(data) + channelIndex) % 5)

\* data.length of a bitmap
RECURSIVE DataLength(_)
DataLength(data) ==
    CASE data.kind = "decoded" -> UPNG_decode(data.input).width * UPNG_decode(data.input).height * 4
      [] data.kind = "padded"  -> data.edgeLength * data.edgeLength * 4
      [] data.kind = "scaled"  -> data.width * data.height * 4
      [] data.kind = "raw"     -> Len(data.bytes)
      [] data.kind = "pattern" -> data.width * data.height * 4

\* the input buffer a bitmap or payload was computed from
RECURSIVE InputOf(_)
InputOf(data) ==
    CASE data.kind = "decoded"  -> data.input
      [] data.kind = "padded"   -> InputOf(data.of)
      [] data.kind = "scaled"   -> InputOf(data.src)
      [] data.kind = "png"      -> InputOf(data.rgba)
      [] data.kind = "packbits" -> InputOf(data.image)
      [] data.kind = "channel"  -> InputOf(data.image)
      [] data.kind = "dib"      -> InputOf(data.image)
      [] data.kind = "mask"     -> InputOf(data.image)

(***************************************************************************)
(* Faults.  A step of a call can be run with a fault: "resample" makes the *)
(* resampler (or the allocation of its result) throw if the step calls it, *)
(* "encode" makes the encoder of the entry's format throw if the step      *)
(* calls it.                                                               *)
(***************************************************************************)
Faults == {"none", "resample", "encode"}

(***************************************************************************)
(* png2icons.ts: the caches                                                *)
(***************************************************************************)
\* variant: the table is never searched
FirstScaledHit_Never(cache, width, height) == 0

\* for (const image of scaledImageCache) if (<dimensions match>) return image.data
FirstScaledHit(cache, width, height) ==
    LET hits == {k \in DOMAIN cache : width = cache[k].width /\ height = cache[k].height}
    IN  IF hits = {} THEN 0 ELSE CHOOSE k \in hits : \A j \in hits : k <= j

\* for (const image of scaledPNGImageCache) if (<dimensions match>) return image.Data
FirstPNGHit(cache, width, height) ==
    LET hits == {k \in DOMAIN cache : cache[k].Width = width /\ cache[k].Height = height}
    IN  IF hits = {} THEN 0 ELSE CHOOSE k \in hits : \A j \in hits : k <= j

\* the result of a function that may throw: the value, the cache it leaves
\* and the operations it performed
Outcome(threw, value, cache, done) ==
    [threw |-> threw, value |-> value, cache |-> cache, ops |-> done]

NoData == [kind |-> "none"]

\* variant: without the test for equal dimensions
getScaledImageData_NoShortcut(cache, src, destRect, scalingAlgorithm, fault) ==
    LET hit == FirstScaledHit(cache, destRect.Width, destRect.Height) IN
    IF hit # 0
    THEN Outcome(FALSE, cache[hit].data, cache, <<>>)
    ELSE IF fault = "resample"
         THEN Outcome(TRUE, NoData, cache, <<>>)
         ELSE LET scaleResult ==
                   [data   |-> Resample(src, destRect.Width, destRect.Height,
                                        scalingAlgorithm),
                    height |-> destRect.Height,
                    width  |-> destRect.Width]
              IN  Outcome(FALSE, scaleResult.data, Append(cache, scaleResult),
                          << <<"resample", destRect.Width, destRect.Height>> >>)

getScaledImageData(cache, src, destRect, scalingAlgorithm, fault) ==
    IF src.width = destRect.Width /\ src.height = destRect.Height
    THEN Outcome(FALSE, src.data, cache, <<>>)
    ELSE LET hit == FirstScaledHit(cache, destRect.Width, destRect.Height) IN
         IF hit # 0
         THEN Outcome(FALSE, cache[hit].data, cache, <<>>)
         ELSE IF fault = "resample"
              THEN Outcome(TRUE, NoData, cache, <<>>)
              ELSE LET scaleResult ==
                        [data   |-> Resample(src, destRect.Width, destRect.Height,
                                             scalingAlgorithm),
                         height |-> destRect.Height,
                         width  |-> destRect.Width]
                   IN  Outcome(FALSE, scaleResult.data, Append(cache, scaleResult),
                               << <<"resample", destRect.Width, destRect.Height>> >>)

getCachedPNG(cache, rgba, width, height, numOfColors, fault) ==
    LET hit == FirstPNGHit(cache, width, height) IN
    IF hit # 0
    THEN Outcome(FALSE, cache[hit].Data, cache, <<>>)
    ELSE IF fault = "encode"
         THEN Outcome(TRUE, NoData, cache, <<>>)
         ELSE LET encoded == UPNG_encode(rgba, width, height, numOfColors)
              IN  Outcome(FALSE, encoded,
                          Append(cache, [Data |-> encoded, Width |-> width,
                                         Height |-> height]),
                          << <<"encode", width, height>> >>)

\* the three module variables as one record
Caches(cur, scaled, pngs) == [currentImage |-> cur, scaled |-> scaled, pngs |-> pngs]

\* variant: the tables are emptied, the slot keeps its buffer
clearCacheOf_KeepSlot(c) == Caches(c.currentImage, <<>>, <<>>)

\* clearCache: both tables emptied, the slot reset
clearCacheOf(c) == Caches(Null, <<>>, <<>>)

\* variant: a different input replaces the slot but leaves the tables
checkCacheOf_KeepTables(c, image) ==
    IF image = Null THEN c
    ELSE [c EXCEPT !.currentImage = image]

\* variant: a different input clears the tables and leaves the slot reset
checkCacheOf_NoReassign(c, image) ==
    IF image = Null THEN c
    ELSE IF c.currentImage = Null THEN [c EXCEPT !.currentImage = image]
    ELSE IF BuffersDiffer(image, c.currentImage) THEN clearCacheOf(c) ELSE c

checkCacheOf(c, image) ==
    IF image = Null THEN c
    ELSE IF c.currentImage = Null THEN [c EXCEPT !.currentImage = image]
    ELSE IF BuffersDiffer(image, c.currentImage)
         THEN [clearCacheOf(c) EXCEPT !.currentImage = image]
         ELSE c

(***************************************************************************)
(* png2icons.ts: images                                                    *)
(***************************************************************************)
NoImage == [data |-> NoData, width |-> 0, height |-> 0]

\* getImageFromPNG: NoImage stands for the null returned when decoding throws
getImageFromPNG(input) ==
    IF UPNG_decodable(input)
    THEN [data   |-> [kind |-> "decoded", input |-> input],
          height |-> UPNG_decode(input).height,
          width  |-> UPNG_decode(input).width]
    ELSE NoImage

\* variant: the half is cut off instead of rounded
RoundHalf_Down(a) == a \div 2

\* Math.round(a / 2) for an integer a >= 0
RoundHalf(a) == (a + 1) \div 2

\* getQuadraticImage; blit rounds the offsets it is given
getQuadraticImage(image) ==
    IF image.height = image.width THEN image
    ELSE LET edgeLength == IF image.height > image.width THEN image.height ELSE image.width
             blitX == IF image.height > image.width
                      THEN RoundHalf(image.height - image.width) ELSE 0
             blitY == IF image.height > image.width
                      THEN 0 ELSE RoundHalf(image.width - image.height)
         IN  [data   |-> [kind |-> "padded", of |-> image.data, edgeLength |-> edgeLength,
                          x |-> blitX, y |-> blitY],
              height |-> edgeLength,
              width  |-> edgeLength]

\* getImageChannel(image, 4, channelIndex): image.length / 4 bytes
getImageChannel(data, channelIndex) ==
    Bytes([kind |-> "channel", image |-> data, channelIndex |-> channelIndex],
          DataLength(data) \div 4)

\* encodeIconWithPackBits(image, false): encode(R) ++ encode(G) ++ encode(B)
encodeIconWithPackBits(data) ==
    LET n == DataLength(data) \div 4
        R == PackBitsLength(data, 0, n)
        G == PackBitsLength(data, 1, n)
        B == PackBitsLength(data, 2, n)
    IN  Bytes([kind |-> "packbits", image |-> data, channels |-> <<0, 1, 2>>], R + G + B)

(***************************************************************************)
(* png2icons.ts: Apple ICNS                                                *)
(***************************************************************************)
\* variant: the same twelve chunks listed by ascending size
icnsChunks_BySize == <<
    [OSType |-> "is32", Format |-> "PackBitsRGB", Size |-> 16,   Info |-> "16x16    "],
    [OSType |-> "s8mk", Format |-> "Alpha",       Size |-> 16,   Info |-> "16x16    "],
    [OSType |-> "ic11", Format |-> "PNG",         Size |-> 32,   Info |-> "16x16@2  "],
    [OSType |-> "il32", Format |-> "PackBitsRGB", Size |-> 32,   Info |-> "32x32    "],
    [OSType |-> "l8mk", Format |-> "Alpha",       Size |-> 32,   Info |-> "32x32    "],
    [OSType |-> "ic12", Format |-> "PNG",         Size |-> 64,   Info |-> "32x32@2  "],
    [OSType |-> "ic07", Format |-> "PNG",         Size |-> 128,  Info |-> "128x128  "],
    [OSType |-> "ic13", Format |-> "PNG",         Size |-> 256,  Info |-> "128x128@2"],
    [OSType |-> "ic08", Format |-> "PNG",         Size |-> 256,  Info |-> "256x256  "],
    [OSType |-> "ic14", Format |-> "PNG",         Size |-> 512,  Info |-> "256x256@2"],
    [OSType |-> "ic09", Format |-> "PNG",         Size |-> 512,  Info |-> "512x512  "],
    [OSType |-> "ic10", Format |-> "PNG",         Size |-> 1024, Info |-> "512x512@2"] >>

\* the table of createICNS
icnsChunks == <<
    [OSType |-> "ic12", Format |-> "PNG",         Size |-> 64,   Info |-> "32x32@2  "],
    [OSType |-> "ic07", Format |-> "PNG",         Size |-> 128,  Info |-> "128x128  "],
    [OSType |-> "ic13", Format |-> "PNG",         Size |-> 256,  Info |-> "128x128@2"],
    [OSType |-> "ic08", Format |-> "PNG",         Size |-> 256,  Info |-> "256x256  "],
    [OSType |-> "ic14", Format |-> "PNG",         Size |-> 512,  Info |-> "256x256@2"],
    [OSType |-> "ic09", Format |-> "PNG",         Size |-> 512,  Info |-> "512x512  "],
    [OSType |-> "ic10", Format |-> "PNG",         Size |-> 1024, Info |-> "512x512@2"],
    [OSType |-> "ic11", Format |-> "PNG",         Size |-> 32,   Info |-> "16x16@2  "],
    [OSType |-> "il32", Format |-> "PackBitsRGB", Size |-> 32,   Info |-> "32x32    "],
    [OSType |-> "l8mk", Format |-> "Alpha",       Size |-> 32,   Info |-> "32x32    "],
    [OSType |-> "is32", Format |-> "PackBitsRGB", Size |-> 16,   Info |-> "16x16    "],
    [OSType |-> "s8mk", Format |-> "Alpha",       Size |-> 16,   Info |-> "16x16    "] >>

\* the outcome of building one chunk or entry: the buffers after it (value),
\* the caches after it, what was logged and done, and whether it threw
StepOutcome(threw, value, caches, logged, done) ==
    [threw |-> threw, value |-> value, caches |-> caches, log |-> logged, ops |-> done]

\* variant: the chunk length leaves out the 8 bytes of the icon header
AppendChunk_PayloadLength(outBuf, OSType, encodedIcon) ==
    LET iconHeader == <<Ascii(OSType), UInt32BE(encodedIcon.n)>>
    IN  Concat(<<outBuf, iconHeader, <<encodedIcon>> >>,
               BufLen(outBuf) + BufLen(iconHeader) + encodedIcon.n)

\* the icon header and the concatenation at the end of appendIcnsChunk's try block
AppendChunk(outBuf, OSType, encodedIcon) ==
    LET iconHeader == <<Ascii(OSType), UInt32BE(encodedIcon.n + 8)>>
    IN  Concat(<<outBuf, iconHeader, <<encodedIcon>> >>,
               BufLen(outBuf) + BufLen(iconHeader) + encodedIcon.n)

\* appendIcnsChunk: value is the new buffer, or <<>> for the null of the catch block
appendIcnsChunk(chunkParams, src, scalingAlgorithm, numOfColors, outBuf, c, fault) ==
    LET icnsChunkRect == getStretchedRect(getRect(0, 0, src.width, src.height),
                                          getRect(0, 0, chunkParams.Size, chunkParams.Size))
        scaled == getScaledImageData(c.scaled, src, icnsChunkRect, scalingAlgorithm, fault)
        c1     == [c EXCEPT !.scaled = scaled.cache]
        caught == <<"Could't append ICNS chunk">>
    IN  IF scaled.threw THEN StepOutcome(TRUE, <<>>, c1, <<caught>>, scaled.ops)
        ELSE IF chunkParams.Format = "PNG"
        THEN LET png == getCachedPNG(c1.pngs, scaled.value, icnsChunkRect.Width,
                                     icnsChunkRect.Height, numOfColors, fault)
                 c2  == [c1 EXCEPT !.pngs = png.cache]
             IN  IF png.threw
                 THEN StepOutcome(TRUE, <<>>, c2, <<caught>>, scaled.ops \o png.ops)
                 ELSE StepOutcome(FALSE,
                          AppendChunk(outBuf, chunkParams.OSType,
                                      Bytes(png.value, PNGByteLength(png.value))),
                          c2, <<>>, scaled.ops \o png.ops)
        ELSE IF fault = "encode"
        THEN StepOutcome(TRUE, <<>>, c1, <<caught>>, scaled.ops)
        ELSE IF chunkParams.Format = "PackBitsRGB"
        THEN StepOutcome(FALSE,
                 AppendChunk(outBuf, chunkParams.OSType, encodeIconWithPackBits(scaled.value)),
                 c1, <<>>, scaled.ops)
        ELSE IF chunkParams.Format = "Alpha"
        THEN StepOutcome(FALSE,
                 AppendChunk(outBuf, chunkParams.OSType, getImageChannel(scaled.value, 3)),
                 c1, <<>>, scaled.ops)
        ELSE StepOutcome(TRUE, <<>>, c1, <<caught>>, scaled.ops)

\* "icns" + length of file (written later)
IcnsFileHeader == <<Ascii("icns"), Zero(4)>>

\* outBuffer.writeUInt32BE(outBuffer.length, 4)
IcnsFinish(outBuf) == WriteField(outBuf, 4, UInt32BE(BufLen(outBuf)))

(***************************************************************************)
(* png2icons.ts: Microsoft ICO                                             *)
(***************************************************************************)
icoChunkSizes == <<256, 128, 96, 72, 64, 48, 32, 24, 16>>

\* the sizes stored as PNG in Windows executable mode
WinExePNGSizes == {256, 128, 96, 72, 64}

getICONDIR(numOfImages) == <<UInt16LE(0), UInt16LE(1), UInt16LE(numOfImages)>>

getICONDIRENTRY(imageSize, width, height, offset) ==
    << UInt8(IF width >= 256 THEN 0 ELSE width),
       UInt8(IF height >= 256 THEN 0 ELSE height),
       UInt8(0),
       UInt8(0),
       UInt16LE(1),
       UInt16LE(32),
       UInt32LE(imageSize),
       UInt32LE(offset) >>

getMaskSize(bitmapWidth, bitmapHeight) ==
    ((bitmapWidth + (IF bitmapWidth % 32 # 0 THEN 32 - (bitmapWidth % 32) ELSE 0))
        * bitmapHeight) \div 8

\* variant: the height is written as it is
getBITMAPINFOHEADER_SingleHeight(image) ==
    LET imageSize == DataLength(image.data) + getMaskSize(image.width, image.height)
    IN  << UInt32LE(40),
           Int32LE(image.width),
           Int32LE(image.height),
           UInt16LE(1),
           UInt16LE(32),
           UInt32LE(0),
           UInt32LE(imageSize),
           Int32LE(3780),
           Int32LE(3780),
           UInt32LE(0),
           UInt32LE(0) >>

getBITMAPINFOHEADER(image) ==
    LET imageSize == DataLength(image.data) + getMaskSize(image.width, image.height)
    IN  << UInt32LE(40),
           Int32LE(image.width),
           Int32LE(image.height * 2),
           UInt16LE(1),
           UInt16LE(32),
           UInt32LE(0),
           UInt32LE(imageSize),
           Int32LE(3780),
           Int32LE(3780),
           UInt32LE(0),
           UInt32LE(0) >>

\* getDIB: the bottom-up BGRA pixels followed by the mask, which
\* Buffer.concat(mask, maskSize) cuts or fills to maskSize bytes
getDIB(image) ==
    LET maskSize == getMaskSize(image.width, image.height)
        paddedWidth == image.width + (IF image.width % 32 # 0
                                      THEN 32 - (image.width % 32) ELSE 0)
        maskBytes == (image.height * paddedWidth) \div 8
        DIB  == <<Bytes([kind |-> "dib", image |-> image.data], DataLength(image.data))>>
        mask == <<Bytes([kind |-> "mask", image |-> image.data], maskBytes)>>
    IN  DIB \o Concat(<<mask>>, maskSize)

\* the loop variables of createICO
IcoState(dir, images, total, offset) ==
    [icoDirectory |-> dir, icoChunkImages |-> images, totalLength |-> total,
     chunkOffset |-> offset]

\* variant: the first payload offset leaves out the directory entries
IcoStart_NoEntries ==
    LET dir == <<getICONDIR(Len(icoChunkSizes))>>
    IN  IcoState(dir, <<>>, BufLen(dir[1]), BufLen(dir[1]))

\* before the loop: the directory header, its length, the first payload offset
IcoStart ==
    LET dir == <<getICONDIR(Len(icoChunkSizes))>>
    IN  IcoState(dir, <<>>, BufLen(dir[1]), BufLen(dir[1]) + Len(icoChunkSizes) * 16)

\* variant: the size list is consulted whatever forWinExe is
UsePNG_AnyMode(PNG, forWinExe, icoChunkRect) ==
    PNG \/ icoChunkRect.Height \in WinExePNGSizes

\* PNG || (forWinExe && [256, 128, 96, 72, 64].indexOf(icoChunkRect.Height) !== -1)
UsePNG(PNG, forWinExe, icoChunkRect) ==
    PNG \/ (forWinExe /\ icoChunkRect.Height \in WinExePNGSizes)

\* the PNG branch of the loop body, after getCachedPNG (png)
IcoPNGEntry(icoChunkSize, scaledRawImage, png, st, c1, done) ==
    LET encodedIcon  == Bytes(png.value, PNGByteLength(png.value))
        iconDirEntry == getICONDIRENTRY(encodedIcon.n, scaledRawImage.width,
                                        scaledRawImage.height, st.chunkOffset)
    IN  IF png.threw
        THEN StepOutcome(TRUE, st, [c1 EXCEPT !.pngs = png.cache], <<>>, done \o png.ops)
        ELSE StepOutcome(FALSE,
                 IcoState(Append(st.icoDirectory, iconDirEntry),
                          Append(st.icoChunkImages, <<encodedIcon>>),
                          st.totalLength + BufLen(iconDirEntry) + encodedIcon.n,
                          st.chunkOffset + encodedIcon.n),
                 [c1 EXCEPT !.pngs = png.cache],
                 << <<"wrote", "png", icoChunkSize>> >>, done \o png.ops)

\* the loop body after getScaledImageData (scaled)
IcoScaledEntry(icoChunkSize, icoChunkRect, scaled, numOfColors, PNG, forWinExe, st, c, fault) ==
    LET scaledRawImage == [data |-> scaled.value, height |-> icoChunkRect.Height,
                           width |-> icoChunkRect.Width]
        c1 == [c EXCEPT !.scaled = scaled.cache]
    IN  IF scaled.threw THEN StepOutcome(TRUE, st, c1, <<>>, scaled.ops)
        ELSE IF UsePNG(PNG, forWinExe, icoChunkRect)
        THEN IcoPNGEntry(icoChunkSize, scaledRawImage,
                         getCachedPNG(c1.pngs, scaled.value, icoChunkRect.Width,
                                      icoChunkRect.Height, ClampColors(numOfColors), fault),
                         st, c1, scaled.ops)
        ELSE IF fault = "encode"
        THEN StepOutcome(TRUE, st, c1, <<>>, scaled.ops)
        ELSE LET iconDirEntry ==
                     getICONDIRENTRY(DataLength(scaledRawImage.data)
                                        + getMaskSize(scaledRawImage.width, scaledRawImage.height)
                                        + BITMAPINFOHEADERLENGTH,
                                     scaledRawImage.width, scaledRawImage.height,
                                     st.chunkOffset)
                 bmpInfoHeader == getBITMAPINFOHEADER(scaledRawImage)
                 DIB == getDIB(scaledRawImage)
             IN  StepOutcome(FALSE,
                     IcoState(Append(st.icoDirectory, iconDirEntry),
                              st.icoChunkImages \o <<bmpInfoHeader, DIB>>,
                              st.totalLength + BufLen(iconDirEntry) + BufLen(bmpInfoHeader)
                                  + BufLen(DIB),
                              st.chunkOffset + BufLen(bmpInfoHeader) + BufLen(DIB)),
                     c1, << <<"wrote", "bmp", icoChunkSize>> >>, scaled.ops)

\* the loop body after getStretchedRect (icoChunkRect)
\* variant: a colour count asks for PNG payloads
IcoRectEntry_PNGIfColors(icoChunkSize, icoChunkRect, src, scalingAlgorithm, numOfColors, PNG, forWinExe, st, c, fault) ==
    IcoScaledEntry(icoChunkSize, icoChunkRect,
                   getScaledImageData(c.scaled, src, icoChunkRect, scalingAlgorithm, fault),
                   numOfColors, PNG \/ numOfColors > 0, forWinExe, st, c, fault)

IcoRectEntry(icoChunkSize, icoChunkRect, src, scalingAlgorithm, numOfColors, PNG, forWinExe, st, c, fault) ==
    IcoScaledEntry(icoChunkSize, icoChunkRect,
                   getScaledImageData(c.scaled, src, icoChunkRect, scalingAlgorithm, fault),
                   numOfColors, PNG, forWinExe, st, c, fault)

\* one iteration of createICO's loop; an exception leaves the function
IcoEntry(icoChunkSize, src, scalingAlgorithm, numOfColors, PNG, forWinExe, st, c, fault) ==
    IcoRectEntry(icoChunkSize,
                 getStretchedRect(getRect(0, 0, src.width, src.height),
                                  getRect(0, 0, icoChunkSize, icoChunkSize)),
                 src, scalingAlgorithm, numOfColors, PNG, forWinExe, st, c, fault)

\* Buffer.concat(icoDirectory.concat(icoChunkImages), totalLength)
IcoFinish(st) == Concat(st.icoDirectory \o st.icoChunkImages, st.totalLength)

(***************************************************************************)
(* SpecPB: the codec applied to bounded inputs.                            *)
(* Inputs are every byte sequence over PBBytes up to MaxShort bytes, plus  *)
(* concatenations of up to MaxSegs segments (a run of one byte, or a       *)
(* pattern without three equal neighbours) whose lengths straddle the run  *)
(* caps of the encoder.                                                    *)
(***************************************************************************)
MaxShort == 6
MaxSegs  == 2
PBBytes  == {0, 1}
SegLens  == {1, 2, 3, MaxLiteral, MaxRepeat, MaxRepeat + 1}
SegKinds == {"rep0", "rep1", "alt", "pairs"}

RECURSIVE SeqsUpTo(_, _)
SeqsUpTo(S, n) ==
    IF n = 0 THEN {<<>>}
    ELSE LET shorter == SeqsUpTo(S, n - 1)
         IN  shorter \cup {Append(s, b) : s \in {t \in shorter : Len(t) = n - 1}, b \in S}

Segment(kind, n) ==
    [k \in 1..n |->
        CASE kind = "rep0"  -> 0
          [] kind = "rep1"  -> 1
          [] kind = "alt"   -> k % 2
          [] kind = "pairs" -> ((k - 1) \div 2) % 2]

RECURSIVE SegInputs(_)
SegInputs(n) ==
    IF n = 0 THEN {<<>>}
    ELSE LET shorter == SegInputs(n - 1)
         IN  shorter \cup {s \o Segment(k, l) : s \in shorter, k \in SegKinds, l \in SegLens}

PBInputs == SeqsUpTo(PBBytes, MaxShort) \cup SegInputs(MaxSegs)

PBIdle ==
    /\ pbPc = "off"
    /\ pbIn = <<>>
    /\ pbEnc = <<>>
    /\ pbDec = <<>>
    /\ pbI = 0
    /\ pbBufs = <<>>

PBInit ==
    /\ pbPc = "in"
    /\ pbIn \in PBInputs
    /\ pbEnc = <<>>
    /\ pbDec = <<>>
    /\ pbI = 0
    /\ pbBufs = <<>>

PBEncode ==
    /\ pbPc = "in"
    /\ pbEnc' = encode(pbIn)
    /\ pbPc' = "encoded"
    /\ UNCHANGED <<pbIn, pbDec, pbI, pbBufs>>

PBDecode ==
    /\ pbPc = "encoded"
    /\ pbDec' = decode(pbEnc)
    /\ pbPc' = "decoded"
    /\ UNCHANGED <<pbIn, pbEnc, pbI, pbBufs>>

PBNext ==
    \/ PBEncode /\ UNCHANGED <<cacheVars, callVars, fnVars>>
    \/ PBDecode /\ UNCHANGED <<cacheVars, callVars, fnVars>>

(***************************************************************************)
(* SpecPBLoop: encode and decode run one pass of their loop at a time.     *)
(* encode is given a buffer of PBInputs and decode then the encoding, or   *)
(* decode is given any buffer of DecodeInputs.  Both functions are         *)
(* synchronous: a loop that can make a pass makes it.                      *)
(***************************************************************************)
MaxDecodeLen == 3
DecodeBytes  == {0, 1, 127, 128, 255}
DecodeInputs == SeqsUpTo(DecodeBytes, MaxDecodeLen)

PBLoopInit ==
    /\ pbI = 0
    /\ pbBufs = <<>>
    /\ pbDec = <<>>
    /\ \/ pbPc = "encodeLoop" /\ pbIn \in PBInputs /\ pbEnc = <<>>
       \/ pbPc = "decodeLoop" /\ pbIn = <<>> /\ pbEnc \in DecodeInputs

\* while (i < buffer.length) { ... } of encode
PBEncodePass ==
    /\ pbPc = "encodeLoop"
    /\ pbI < Len(pbIn)
    /\ \E pass \in {EncodeIter(pbIn, pbI)} :
          /\ pbBufs' = pbBufs \o pass.bufs
          /\ pbI' = pass.i
          /\ pbPc' = IF pass.break THEN "encodeEnd" ELSE "encodeLoop"
    /\ UNCHANGED <<pbIn, pbEnc, pbDec>>

\* return Buffer.concat(list, totalLength) of encode; the result is handed
\* to decode
PBEncodeReturn ==
    /\ \/ pbPc = "encodeEnd"
       \/ pbPc = "encodeLoop" /\ ~(pbI < Len(pbIn))
    /\ pbEnc' = ConcatBufs(pbBufs)
    /\ pbI' = 0
    /\ pbBufs' = <<>>
    /\ pbPc' = "decodeLoop"
    /\ UNCHANGED <<pbIn, pbDec>>

\* while (i < buffer.length) { ... } of decode
PBDecodePass ==
    /\ pbPc = "decodeLoop"
    /\ pbI < Len(pbEnc)
    /\ \E pass \in {DecodeIter(pbEnc, pbI)} :
          /\ pbBufs' = Append(pbBufs, pass.buf)
          /\ pbI' = pass.i
    /\ UNCHANGED <<pbPc, pbIn, pbEnc, pbDec>>

\* return Buffer.concat(list, totalLength) of decode
PBDecodeReturn ==
    /\ pbPc = "decodeLoop"
    /\ ~(pbI < Len(pbEnc))
    /\ pbDec' = ConcatBufs(pbBufs)
    /\ pbPc' = "returned"
    /\ UNCHANGED <<pbIn, pbEnc, pbI, pbBufs>>

PBLoopNext ==
    \/ PBEncodePass /\ UNCHANGED <<cacheVars, callVars, fnVars>>
    \/ PBEncodeReturn /\ UNCHANGED <<cacheVars, callVars, fnVars>>
    \/ PBDecodePass /\ UNCHANGED <<cacheVars, callVars, fnVars>>
    \/ PBDecodeReturn /\ UNCHANGED <<cacheVars, callVars, fnVars>>

(***************************************************************************)
(* SpecFn: helper functions of png2icons.ts applied to bounded inputs.     *)
(* Bitmaps here carry their bytes: data = [kind |-> "raw", bytes |-> ...]. *)
(***************************************************************************)
MaxPadEdge == 5

NoArgs == [op |-> "none"]
NoOut  == [op |-> "none"]

FnIdle ==
    /\ fnPc = "off"
    /\ fnIn = NoArgs
    /\ fnOut = NoOut

\* a w x h RGBA bitmap whose bytes are all non-zero and differ along a row
RawImage(w, h) ==
    [data   |-> [kind |-> "raw", bytes |-> [k \in 1..(w * h * 4) |-> 1 + (k % 251)]],
     width  |-> w,
     height |-> h]

PadInputs == {[op |-> "pad", image |-> RawImage(w, h)] : w, h \in 1..MaxPadEdge}

\* (image.width * y + x) << 2
PixelIndex(width, x, y) == (width * y + x) * 4

\* blit(source, target, x, y) with x and y already rounded: the bytes of
\* target afterwards.  scanImage visits every source pixel (sx, sy) and the
\* callback copies it to (x + sx, y + sy) when that lies inside the target;
\* distinct source pixels go to distinct target pixels, so a target byte is
\* the source byte of the one pixel copied there, or is left as it was.
blit(source, target, x, y) ==
    [k \in 1..Len(target.data) |->
        LET tx == ((k - 1) \div 4) % target.width
            ty == ((k - 1) \div 4) \div target.width
            sx == tx - x
            sy == ty - y
        IN  IF /\ sx \in 0..(source.width - 1) /\ sy \in 0..(source.height - 1)
               /\ x + sx >= 0 /\ y + sy >= 0
               /\ target.width - x - sx > 0 /\ target.height - y - sy > 0
            THEN source.data[PixelIndex(source.width, sx, sy) + ((k - 1) % 4) + 1]
            ELSE target.data[k]]

\* the bytes of getQuadraticImage(image) for a bitmap that carries its bytes:
\* new Uint8Array(edgeLength * edgeLength * 4) after blit(image, result, blitX, blitY)
QuadraticPixels(image) ==
    LET q == getQuadraticImage(image) IN
    IF q = image THEN image.data.bytes
    ELSE blit([data |-> image.data.bytes, width |-> image.width, height |-> image.height],
              [data |-> [k \in 1..(q.width * q.height * 4) |-> 0],
               width |-> q.width, height |-> q.height],
              q.data.x, q.data.y)

\* sides of the rectangles handed to getStretchedRect
SrcSides == {1, 3, 49, 50, 98, 100}
DstSides == {16, 32, 64}
FitInputs ==
    {[op |-> "fit", src |-> getRect(0, 0, sw, sh), dst |-> getRect(0, 0, dw, dh)] :
        sw, sh \in SrcSides, dw, dh \in DstSides}

\* getScaledImageData: bitmaps and target rectangles of edge 1..MaxScaleEdge,
\* the six algorithm constants and a number that is none of them, an empty
\* scaledImageCache or one that already holds a bitmap of the target size
MaxScaleEdge == 2
AnyAlgorithm == {NEAREST_NEIGHBOR, BILINEAR, BICUBIC, BEZIER, HERMITE, BICUBIC2, 6}
EarlierBitmap(w, h) == [data |-> [kind |-> "earlier"], height |-> h, width |-> w]
ScaleInputs ==
    {[op |-> "scale", image |-> RawImage(sw, sh), destRect |-> getRect(0, 0, dw, dh),
      scalingAlgorithm |-> a, fault |-> f,
      cache |-> IF warm THEN <<EarlierBitmap(dw, dh)>> ELSE <<>>] :
        sw, sh, dw, dh \in 1..MaxScaleEdge, a \in AnyAlgorithm,
        f \in {"none", "resample"}, warm \in BOOLEAN}

(***************************************************************************)
(* lib/resize4.js: bicubic(srcImg, destImg, scale), called by               *)
(* getScaledImageData with scale = destRect.Width / srcImg.width.           *)
(***************************************************************************)
\* iy0 = Math.floor(i / scale), ix0 = Math.floor(j / scale)
SourceCoord(i, destWidth, srcWidth) == FloorDivDiv(i, destWidth, srcWidth)

\* repeatY / repeatX
RepeatOf(i0, size) ==
    IF i0 < 1 THEN 0 - 1
    ELSE IF i0 > size - 3 THEN i0 - (size - 3)
    ELSE 0

\* offset_row0 .. offset_row3
RowOffsets(iy0, ix0, repeatY, width) ==
    LET offset_row1 == (iy0 * width + ix0) * 4
        offset_row0 == IF repeatY < 0 THEN offset_row1 ELSE ((iy0 - 1) * width + ix0) * 4
        offset_row2 == IF repeatY > 1 THEN offset_row1 ELSE ((iy0 + 1) * width + ix0) * 4
        offset_row3 == IF repeatY > 0 THEN offset_row2 ELSE ((iy0 + 2) * width + ix0) * 4
    IN  <<offset_row0, offset_row1, offset_row2, offset_row3>>

\* variant: the columns of the window start one pixel to the right
ColOffsets_Shifted(repeatX) == <<0, 4, 8, 12>>

\* offset_col0 .. offset_col3
ColOffsets(repeatX) ==
    LET offset_col1 == 0
        offset_col0 == IF repeatX < 0 THEN offset_col1 ELSE 0 - 4
        offset_col2 == IF repeatX > 1 THEN offset_col1 ELSE 4
        offset_col3 == IF repeatX > 0 THEN offset_col2 ELSE 8
    IN  <<offset_col0, offset_col1, offset_col2, offset_col3>>

\* the 4 x 4 window of destination pixel (j, i): the source coordinates and
\* the row and column offsets of its samples
Window(srcImg, destWidth, i, j) ==
    LET iy0 == SourceCoord(i, destWidth, srcImg.width)
        ix0 == SourceCoord(j, destWidth, srcImg.width)
    IN  [iy0 |-> iy0, ix0 |-> ix0,
         rows |-> RowOffsets(iy0, ix0, RepeatOf(iy0, srcImg.height), srcImg.width),
         cols |-> ColOffsets(RepeatOf(ix0, srcImg.width))]

\* the windows of all destination pixels
Windows(srcImg, destRect) ==
    {Window(srcImg, destRect.Width, i, j) :
        i \in 0..(destRect.Height - 1), j \in 0..(destRect.Width - 1)}

\* bicubic is reached with the padded (square) source and the rectangle
\* getStretchedRect fits into a size x size target
MaxSrcEdge == 5
BicubicSizes == {16, 24}
BicubicInputs ==
    {[op |-> "bicubic", image |-> RawImage(e, e),
      destRect |-> getStretchedRect(getRect(0, 0, e, e), getRect(0, 0, size, size))] :
        e \in 1..MaxSrcEdge, size \in BicubicSizes}

(***************************************************************************)
(* lib/resize4.js: the bytes bicubic stores when the source edge is a      *)
(* multiple k of the destination edge, so that the exact source            *)
(* coordinate of destination index j is the integer n = k * j.  The code   *)
(* computes j / scale in doubles with scale = fl(1 / k):                   *)
(*   - the quotient is n itself, or a double just above n (floor n,        *)
(*     offset a few 2^(L - 52) with L = floor(log2 n)), or a double just   *)
(*     below n (floor n - 1, offset just below 1);                         *)
(*   - with both offsets 0 every TERP is 0.5 * (..) * 0 + b = b, unless a  *)
(*     sample is undefined (read outside the buffer): then it is NaN;      *)
(*   - with an offset t just above 0 on one axis the result is             *)
(*     b + (c - a) * t / 2 up to terms far below the spacing of doubles:   *)
(*     not below b when c >= a, below b when (a - c) * t / 2 is at least   *)
(*     the spacing 2^-45 of the doubles below 256;                         *)
(*   - in every other case the result lies within 1 of the sample at the   *)
(*     exact coordinate, on a side the model does not compute.             *)
(* The destination is a Uint8Array: a store truncates, NaN is stored as 0. *)
(***************************************************************************)
\* a square bitmap of edge * edge pixels given by a formula
PatternImage(edge, seed) ==
    [data   |-> [kind |-> "pattern", width |-> edge, height |-> edge, seed |-> seed],
     width  |-> edge,
     height |-> edge]

Undefined == 0 - 1

\* srcImg.data[offset]
SrcByte(data, offset) ==
    IF offset < 0 \/ offset >= DataLength(data) THEN Undefined
    ELSE IF data.kind = "raw" THEN data.bytes[offset + 1]
    ELSE LET pixel == offset \div 4
             x     == pixel % data.width
             y     == pixel \div data.width
         IN  (7 * x * x + (31 + 6 * data.seed) * x + 53 * y + 29 * (offset % 4)
                 + 11 * data.seed) % 256

\* the sign of (j / scale) - n in doubles, for scale = fl(d / s) and an
\* integral n = j * s / d: 0 when the quotient is exactly n
CoordError(j, d, s) ==
    IF j = 0 \/ (j * s) % d # 0 THEN 0
    ELSE LET n  == (j * s) \div d
             q  == FloorLog2Ratio(d, s)
             e  == 52 - q
             r  == ((d % s) * Pow2Mod(e, s)) % s
             L  == FloorLog2(n)
             Far(lhs, k) == IF k >= 0 THEN lhs > d * Pow2(k)
                                      ELSE lhs * Pow2(0 - k) > d
         IN  IF r # 0 /\ 2 * r > s
                  /\ Far(n * (s - r), L - q - (IF IsPow2(n) THEN 2 ELSE 1))
             THEN 0 - 1
             ELSE IF r # 0 /\ 2 * r < s /\ Far(n * r, L - q - 1) THEN 1
             ELSE 0

\* red_pixels .. alpha_pixels of a window: values[column][row]
Pixels(srcImg, win, channel) ==
    [col \in 1..4 |-> [row \in 1..4 |->
        SrcByte(srcImg.data, win.rows[row] + win.cols[col] + channel)]]

\* destImg.data[idxD] = this.BicubicInterpolation(dx, dy, values): the bytes
\* the store can leave.  ex, ey are the signs of the coordinate errors that
\* dx and dy carry, Lx and Ly the binary exponents of the coordinates.
BicubicInterpolation(ex, ey, Lx, Ly, values) ==
    LET exact  == values[IF ex < 0 THEN 3 ELSE 2][IF ey < 0 THEN 3 ELSE 2]
        slopeX == values[3][2] - values[1][2]
        slopeY == values[2][3] - values[2][1]
        Near   == {exact - 1, exact}
    IN  IF \E col, row \in 1..4 : values[col][row] = Undefined THEN {0}
        ELSE IF ex = 0 /\ ey = 0 THEN {exact}
        ELSE IF exact = 0 THEN {0}
        ELSE IF ey = 0 /\ ex = 1
             THEN (IF slopeX >= 0 THEN {exact}
                   ELSE IF (0 - slopeX) * Pow2(Lx) >= 512 THEN {exact - 1}
                   ELSE Near)
        ELSE IF ex = 0 /\ ey = 1
             THEN (IF slopeY >= 0 THEN {exact}
                   ELSE IF (0 - slopeY) * Pow2(Ly) >= 512 THEN {exact - 1}
                   ELSE Near)
        ELSE Near

\* destImg.data after bicubic: for every index idxD + channel the bytes the
\* store can leave there
BicubicData(srcImg, destRect) ==
    [o \in 0..(destRect.Width * destRect.Height * 4 - 1) |->
        LET j   == (o \div 4) % destRect.Width
            i   == (o \div 4) \div destRect.Width
            win == Window(srcImg, destRect.Width, i, j)
        IN  BicubicInterpolation(CoordError(j, destRect.Width, srcImg.width),
                                 CoordError(i, destRect.Width, srcImg.width),
                                 FloorLog2(win.ix0), FloorLog2(win.iy0),
                                 Pixels(srcImg, win, o % 4))]

\* destination edges and the factors k of the source edges k * edge: small
\* factors, and factors whose reciprocal is not a double that divides back
MaxDestEdge == 3
ScaleFactors == {1, 2, 3, 4, 49, 93}
BicubicDataInputs ==
    {[op |-> "bicubicData", image |-> PatternImage(p[2] * p[1], seed),
      destRect |-> getRect(0, 0, p[1], p[1])] :
        p \in {dk \in (1..MaxDestEdge) \X ScaleFactors : dk[1] * dk[2] >= 2},
        seed \in 0..2}

(***************************************************************************)
(* png2icons.ts: getDIB on bitmaps given byte by byte.  Offsets are         *)
(* 0-based as in the source; byte k of a buffer is element k + 1.           *)
(***************************************************************************)
\* variant: the rows keep their order
DIBPos_TopDown(end, row, col) == row + col

\* pos = (end - row) + col
DIBPos(end, row, col) == (end - row) + col

\* the pixel bytes of getDIB: DIB.writeUInt8(b, pos) .. DIB.writeUInt8(a, pos + 3)
\* with pos = (end - row) + col, for every row and col of the two loops;
\* Buffer.alloc leaves 0 wherever nothing is written
DIBPixels(image) ==
    LET bitmap  == image.data.bytes
        columns == image.width * 4
        rows    == image.height * columns
        end     == rows - columns
        Written(t) == {<<row, col, c>> \in
                          {r * columns : r \in 0..(image.height - 1)}
                          \X {x * 4 : x \in 0..(image.width - 1)} \X (0..3) :
                          DIBPos(end, row, col) + c = t}
        Value(w) == LET pos == w[1] + w[2]
                    IN  CASE w[3] = 0 -> bitmap[pos + 2 + 1]
                          [] w[3] = 1 -> bitmap[pos + 1 + 1]
                          [] w[3] = 2 -> bitmap[pos + 1]
                          [] w[3] = 3 -> bitmap[pos + 3 + 1]
    IN  [k \in 1..Len(bitmap) |->
            IF Written(k - 1) = {} THEN 0 ELSE Value(CHOOSE w \in Written(k - 1) : TRUE)]

\* the bits one iteration of the outer loop pushes: for every col
\* bitmap[pos + 3] === 0 ? 1 : 0 with pos = (end - row) + col, then the
\* padding computed from the length of maskBits
RowMaskBits(image, row, maskBits) ==
    LET bitmap  == image.data.bytes
        columns == image.width * 4
        end     == image.height * columns - columns
        pushed  == maskBits \o [x \in 1..image.width |->
                        IF bitmap[DIBPos(end, row, (x - 1) * 4) + 3 + 1] = 0 THEN 1 ELSE 0]
        padding == IF Len(pushed) % 32 # 0 THEN 32 - (Len(pushed) % 32) ELSE 0
    IN  pushed \o [x \in 1..padding |-> 0]

\* maskBits after the rows from r on
RECURSIVE MaskBitsFrom(_, _, _)
MaskBitsFrom(image, r, maskBits) ==
    IF r >= image.height THEN maskBits
    ELSE MaskBitsFrom(image, r + 1, RowMaskBits(image, r * image.width * 4, maskBits))

\* variant: the first bit is the least significant one
ParseBits_LSBFirst(bits) ==
    LET n == Len(bits)
        Weight(x) == Pow2(x - 1)
        RECURSIVE Sum(_)
        Sum(x) == IF x = 0 THEN 0 ELSE bits[x] * Weight(x) + Sum(x - 1)
    IN  Sum(n)

\* parseInt(maskBits.slice(i, i + 8).join(""), 2)
ParseBits(bits) ==
    LET n == Len(bits)
        Weight(x) == Pow2(n - x)
        RECURSIVE Sum(_)
        Sum(x) == IF x = 0 THEN 0 ELSE bits[x] * Weight(x) + Sum(x - 1)
    IN  Sum(n)

\* the list "mask": one byte per 8 mask bits
MaskBytes(maskBits) ==
    [b \in 1..((Len(maskBits) + 7) \div 8) |->
        ParseBits(SubSeq(maskBits, (b - 1) * 8 + 1, Min(b * 8, Len(maskBits))))]

\* Buffer.concat(list, totalLength) on bytes: cut or zero-filled
ConcatTo(bytes, total) ==
    [k \in 1..total |-> IF k <= Len(bytes) THEN bytes[k] ELSE 0]

\* getDIB(image) as bytes
DIBBytes(image) ==
    DIBPixels(image)
        \o ConcatTo(MaskBytes(MaskBitsFrom(image, 0, <<>>)),
                    getMaskSize(image.width, image.height))

\* bitmaps with transparent (alpha 0) and other pixels, of widths below, at
\* and above the 32-bit boundary of a mask row
DIBWidths == {1, 2, 3, 9, 32, 33}
MaxDIBHeight == 3
AlphaImage(w, h, seed) ==
    [data |-> [kind |-> "raw",
               bytes |-> [k \in 1..(w * h * 4) |->
                   LET pixel == (k - 1) \div 4
                   IN  IF (k - 1) % 4 = 3
                       THEN (IF (pixel + (pixel \div w) + seed) % 3 = 0 THEN 0
                             ELSE 1 + (pixel % 255))
                       ELSE 1 + ((k + seed) % 251)]],
     width |-> w, height |-> h]
DIBInputs ==
    {[op |-> "dib", image |-> AlphaImage(w, h, seed)] :
        w \in DIBWidths, h \in 1..MaxDIBHeight, seed \in 0..2}

(***************************************************************************)
(* The memory a loop iteration works on.  A heap maps the names of the      *)
(* allocations to their bytes; "image" is the memory of the resampled       *)
(* bitmap (an entry of scaledImageCache, or the padded source), the other   *)
(* names are the buffers the helpers allocate.  A helper is given the name  *)
(* of the memory its argument refers to and writes where the code writes.   *)
(***************************************************************************)
HeapBlocks == {"image", "bitmap", "DIB", "mask", "channel", "encodedIcon", "buffer"}
HeapOf(bytes) == [b \in HeapBlocks |-> IF b = "image" THEN bytes ELSE <<>>]

\* Buffer.from(arrayBuffer) shares the memory of the ArrayBuffer;
\* Buffer.from(typedArray) and Buffer.alloc(n) are new memory
SharedBuffer(block) == block

\* variant: getDIB builds the DIB in the memory of its argument
DIBBlock_InPlace(imageBlock) == imageBlock

\* const DIB: Buffer = Buffer.alloc(image.data.length)
DIBBlock(imageBlock) == "DIB"

\* getImageChannel(image, 4, channelIndex) on bytes
ChannelBytes(bytes, channelIndex) ==
    [k \in 1..(Len(bytes) \div 4) |-> bytes[4 * (k - 1) + channelIndex + 1]]

\* getImageChannel: channel = Buffer.alloc(image.length / bpp), written byte by byte
HeapGetImageChannel(heap, imageBlock, channelIndex) ==
    [heap EXCEPT !["channel"] = ChannelBytes(heap[imageBlock], channelIndex)]

\* encodeIconWithPackBits(image, false) on bytes
PackBitsRGBBytes(bytes) ==
    encode(ChannelBytes(bytes, 0)) \o encode(ChannelBytes(bytes, 1))
        \o encode(ChannelBytes(bytes, 2))

\* encodeIconWithPackBits(image, false): three channels extracted and encoded
\* one after the other, the encodings concatenated into a new buffer
HeapEncodeIconWithPackBits(heap, imageBlock) ==
    LET R  == encode(HeapGetImageChannel(heap, imageBlock, 0)["channel"])
        G  == encode(HeapGetImageChannel(heap, imageBlock, 1)["channel"])
        h3 == HeapGetImageChannel(heap, imageBlock, 2)
        B  == encode(h3["channel"])
    IN  [h3 EXCEPT !["encodedIcon"] = R \o G \o B]

\* getBITMAPINFOHEADER: 40 bytes allocated and written
HeapGetBITMAPINFOHEADER(heap, width, height) ==
    [heap EXCEPT !["buffer"] = [k \in 1..BITMAPINFOHEADERLENGTH |-> 0]]

\* getDIB: bitmap = Buffer.from(image.data) is a copy; the pixels are
\* written to DIB, the mask bytes to buffers of their own
HeapGetDIB(heap, imageBlock, width, height) ==
    LET h1 == [heap EXCEPT !["bitmap"] = heap[imageBlock]]
        image == [data |-> [kind |-> "raw", bytes |-> h1["bitmap"]],
                  width |-> width, height |-> height]
        h2 == [h1 EXCEPT ![DIBBlock(imageBlock)] = DIBPixels(image)]
    IN  [h2 EXCEPT !["mask"] = ConcatTo(MaskBytes(MaskBitsFrom(image, 0, <<>>)),
                                        getMaskSize(width, height))]

\* what a loop iteration does with the resampled bitmap, by payload format
HeapAfter(format, heap, width, height) ==
    CASE format = "PackBitsRGB" -> HeapEncodeIconWithPackBits(heap, SharedBuffer("image"))
      [] format = "Alpha" ->
            LET h1 == HeapGetImageChannel(heap, SharedBuffer("image"), 3)
            IN  [h1 EXCEPT !["encodedIcon"] = h1["channel"]]
      [] format = "bmp" ->
            HeapGetDIB(HeapGetBITMAPINFOHEADER(heap, width, height), "image", width, height)

FrameFormats == {"PackBitsRGB", "Alpha", "bmp"}
MaxFrameEdge == 3
FrameInputs ==
    {[op |-> "frame", format |-> f, image |-> AlphaImage(w, h, seed)] :
        f \in FrameFormats, w, h \in 1..MaxFrameEdge, seed \in 0..1}

FnInputs == PadInputs \cup FitInputs \cup ScaleInputs \cup BicubicInputs \cup BicubicDataInputs \cup DIBInputs \cup FrameInputs

FnInit ==
    /\ fnPc = "in"
    /\ fnIn \in FnInputs
    /\ fnOut = NoOut

FnPad ==
    /\ fnPc = "in"
    /\ fnIn.op = "pad"
    /\ fnOut' = [op |-> "pad", image |-> getQuadraticImage(fnIn.image),
                 pixels |-> QuadraticPixels(fnIn.image)]
    /\ fnPc' = "out"
    /\ UNCHANGED fnIn

FnFit ==
    /\ fnPc = "in"
    /\ fnIn.op = "fit"
    /\ fnOut' = [op |-> "fit", rect |-> getStretchedRect(fnIn.src, fnIn.dst)]
    /\ fnPc' = "out"
    /\ UNCHANGED fnIn

FnScale ==
    /\ fnPc = "in"
    /\ fnIn.op = "scale"
    /\ fnOut' = [op |-> "scale",
                 outcome |-> getScaledImageData(fnIn.cache, fnIn.image, fnIn.destRect,
                                                fnIn.scalingAlgorithm, fnIn.fault)]
    /\ fnPc' = "out"
    /\ UNCHANGED fnIn

FnBicubic ==
    /\ fnPc = "in"
    /\ fnIn.op = "bicubic"
    /\ fnOut' = [op |-> "bicubic", windows |-> Windows(fnIn.image, fnIn.destRect)]
    /\ fnPc' = "out"
    /\ UNCHANGED fnIn

\* Resize4.bicubic(srcImage, scaleResult, destRect.Width / srcImage.width) on a
\* source whose edge is a multiple of the destination's
FnBicubicData ==
    /\ fnPc = "in"
    /\ fnIn.op = "bicubicData"
    /\ fnOut' = [op |-> "bicubicData", data |-> BicubicData(fnIn.image, fnIn.destRect)]
    /\ fnPc' = "out"
    /\ UNCHANGED fnIn

\* getBITMAPINFOHEADER(image) and getDIB(image), as createICO calls them on
\* one bitmap; image is the bitmap after the calls
FnDIB ==
    /\ fnPc = "in"
    /\ fnIn.op = "dib"
    /\ fnOut' = [op |-> "dib", image |-> fnIn.image,
                 header |-> getBITMAPINFOHEADER(fnIn.image),
                 DIB |-> DIBBytes(fnIn.image)]
    /\ fnPc' = "out"
    /\ UNCHANGED fnIn

\* the payload of one chunk or entry is built from a resampled bitmap
FnFrame ==
    /\ fnPc = "in"
    /\ fnIn.op = "frame"
    /\ fnOut' = [op |-> "frame",
                 heap |-> HeapAfter(fnIn.format, HeapOf(fnIn.image.data.bytes),
                                    fnIn.image.width, fnIn.image.height)]
    /\ fnPc' = "out"
    /\ UNCHANGED fnIn

FnNext ==
    \/ FnFrame /\ UNCHANGED <<pbVars, cacheVars, callVars>>
    \/ FnDIB /\ UNCHANGED <<pbVars, cacheVars, callVars>>
    \/ FnBicubic /\ UNCHANGED <<pbVars, cacheVars, callVars>>
    \/ FnBicubicData /\ UNCHANGED <<pbVars, cacheVars, callVars>>
    \/ FnScale /\ UNCHANGED <<pbVars, cacheVars, callVars>>
    \/ FnPad /\ UNCHANGED <<pbVars, cacheVars, callVars>>
    \/ FnFit /\ UNCHANGED <<pbVars, cacheVars, callVars>>

NoCall == [fn |-> "none", input |-> Null, scalingAlgorithm |-> 0, numOfColors |-> 0,
           PNG |-> FALSE, forWinExe |-> FALSE]

NoResult == [kind |-> "none", buf |-> <<>>]

MainIdle ==
    /\ currentImage = Null
    /\ scaledImageCache = <<>>
    /\ scaledPNGImageCache = <<>>
    /\ pc = "idle"
    /\ call = NoCall
    /\ idx = 0
    /\ srcImage = NoImage
    /\ outBuffer = <<>>
    /\ icoDirectory = <<>>
    /\ icoChunkImages = <<>>
    /\ totalLength = 0
    /\ chunkOffset = 0
    /\ result = NoResult
    /\ log = <<>>
    /\ ops = <<>>
    /\ nCalls = 0
    /\ hist = "fresh"
    /\ coldStart = FALSE

(***************************************************************************)
(* A whole create call run without faults from given caches: what the call *)
(* returns.  The steps are those the actions of Spec take.                 *)
(***************************************************************************)
RECURSIVE IcnsLoop(_, _, _, _, _, _)
IcnsLoop(k, src, scalingAlgorithm, nOfColors, outBuf, c) ==
    IF k > Len(icnsChunks) THEN IcnsFinish(outBuf)
    ELSE LET o == appendIcnsChunk(icnsChunks[k], src, scalingAlgorithm, nOfColors,
                                  outBuf, c, "none")
         IN  IF o.threw THEN <<>>
             ELSE IcnsLoop(k + 1, src, scalingAlgorithm, nOfColors, o.value, o.caches)

RECURSIVE IcoLoop(_, _, _, _, _, _, _, _)
IcoLoop(k, src, scalingAlgorithm, numOfColors, PNG, forWinExe, st, c) ==
    IF k > Len(icoChunkSizes) THEN IcoFinish(st)
    ELSE LET o == IcoEntry(icoChunkSizes[k], src, scalingAlgorithm, numOfColors, PNG,
                           forWinExe, st, c, "none")
         IN  IF o.threw THEN <<>>
             ELSE IcoLoop(k + 1, src, scalingAlgorithm, numOfColors, PNG, forWinExe,
                          o.value, o.caches)

\* the buffer a call with a decodable input returns when started with caches c
RunCall(cl, c) ==
    LET src == getQuadraticImage(getImageFromPNG(cl.input))
        c1  == checkCacheOf(c, cl.input)
    IN  IF cl.fn = "createICNS"
        THEN IcnsLoop(1, src, cl.scalingAlgorithm, ClampColors(cl.numOfColors),
                      IcnsFileHeader, c1)
        ELSE IcoLoop(1, src, cl.scalingAlgorithm, cl.numOfColors, cl.PNG, cl.forWinExe,
                     IcoStart, c1)

EmptyCaches == Caches(Null, <<>>, <<>>)

(***************************************************************************)
(* Spec: calls of createICNS, createICO and clearCache, one after the      *)
(* other (the module is synchronous: a call runs to its end before the     *)
(* next one starts).  A create call is run in steps: its entry (cache      *)
(* check, decoding, squaring) and then one step per chunk or entry; the    *)
(* last step also finishes the buffer and returns it.                      *)
(***************************************************************************)
MaxCalls    == 2
Algorithms  == {NEAREST_NEIGHBOR, BICUBIC2}
ColorCounts == {16, 300}

TheCaches == Caches(currentImage, scaledImageCache, scaledPNGImageCache)

SetCaches(c) ==
    /\ currentImage' = c.currentImage
    /\ scaledImageCache' = c.scaled
    /\ scaledPNGImageCache' = c.pngs

\* the locals of a create call that is not running
NoLocals ==
    /\ idx' = 0
    /\ srcImage' = NoImage
    /\ outBuffer' = <<>>
    /\ icoDirectory' = <<>>
    /\ icoChunkImages' = <<>>
    /\ totalLength' = 0
    /\ chunkOffset' = 0

Returned(buf) == [kind |-> "buffer", buf |-> buf]
ReturnedNull  == [kind |-> "null", buf |-> <<>>]
Threw         == [kind |-> "thrown", buf |-> <<>>]
Pending       == [kind |-> "pending", buf |-> <<>>]

\* the cache operation checkCache performs for an input, as an ops entry
CheckCacheOps(c, input) ==
    IF checkCacheOf(c, input).scaled # c.scaled \/ checkCacheOf(c, input).pngs # c.pngs
       \/ (input # Null /\ c.currentImage # Null /\ BuffersDiffer(input, c.currentImage))
    THEN << <<"clearCache", 0, 0>> >> ELSE <<>>

NextHist(input) ==
    IF hist = "fresh" \/ hist = input THEN input ELSE "mixed"

\* variant: the null of getImageFromPNG is not tested
DecodeFailed_Unchecked(inputImage) == FALSE

\* if (!inputImage) { return null; }
DecodeFailed(inputImage) == inputImage = NoImage

\* the lines of createICNS / createICO before the loop
Enter(fn, input, scalingAlgorithm, numOfColors, PNG, forWinExe) ==
    LET inputImage == getImageFromPNG(input) IN
    /\ pc = "idle"
    /\ nCalls < MaxCalls
    /\ nCalls' = nCalls + 1
    /\ hist' = NextHist(input)
    /\ call' = [fn |-> fn, input |-> input, scalingAlgorithm |-> scalingAlgorithm,
                numOfColors |-> numOfColors, PNG |-> PNG, forWinExe |-> forWinExe]
    /\ SetCaches(checkCacheOf(TheCaches, input))
    /\ coldStart' = (/\ checkCacheOf(TheCaches, input).scaled = <<>>
                     /\ checkCacheOf(TheCaches, input).pngs = <<>>)
    /\ ops' = CheckCacheOps(TheCaches, input)
    /\ IF DecodeFailed(inputImage)
       THEN /\ log' = << <<"Couldn't decode PNG">> >>
            /\ result' = ReturnedNull
            /\ pc' = "idle"
            /\ NoLocals
       ELSE /\ log' = <<>>
            /\ result' = Pending
            /\ srcImage' = getQuadraticImage(inputImage)
            /\ idx' = 1
            /\ IF fn = "createICNS"
               THEN /\ pc' = "icns"
                    /\ outBuffer' = IcnsFileHeader
                    /\ icoDirectory' = <<>>
                    /\ icoChunkImages' = <<>>
                    /\ totalLength' = 0
                    /\ chunkOffset' = 0
               ELSE /\ pc' = "ico"
                    /\ outBuffer' = <<>>
                    /\ icoDirectory' = IcoStart.icoDirectory
                    /\ icoChunkImages' = IcoStart.icoChunkImages
                    /\ totalLength' = IcoStart.totalLength
                    /\ chunkOffset' = IcoStart.chunkOffset
    /\ UNCHANGED <<pbVars, fnVars>>

createICNS(input, scalingAlgorithm, numOfColors) ==
    Enter("createICNS", input, scalingAlgorithm, numOfColors, FALSE, FALSE)

createICO(input, scalingAlgorithm, numOfColors, PNG, forWinExe) ==
    Enter("createICO", input, scalingAlgorithm, numOfColors, PNG, forWinExe)

\* one iteration of createICNS's loop; after the last one the file length is
\* written, "done" is logged and the buffer is returned
IcnsChunkDone(chunkParams, o) ==
    LET wrote == <<"wrote", chunkParams.OSType, chunkParams.Size>> IN
    /\ SetCaches(o.caches)
    /\ ops' = ops \o o.ops
    /\ IF o.threw
       THEN /\ log' = log \o o.log
            /\ result' = ReturnedNull
            /\ pc' = "idle"
            /\ NoLocals
       ELSE IF idx < Len(icnsChunks)
       THEN /\ log' = Append(log, wrote)
            /\ outBuffer' = o.value
            /\ idx' = idx + 1
            /\ UNCHANGED <<pc, result, srcImage, icoDirectory, icoChunkImages,
                           totalLength, chunkOffset>>
       ELSE /\ log' = log \o <<wrote, <<"done">> >>
            /\ result' = Returned(IcnsFinish(o.value))
            /\ pc' = "idle"
            /\ NoLocals
    /\ UNCHANGED <<call, nCalls, hist, coldStart, pbVars, fnVars>>

\* createICNS: the next chunk of the table is built and appended
IcnsChunkStep(fault) ==
    /\ pc = "icns"
    /\ IcnsChunkDone(icnsChunks[idx],
                     appendIcnsChunk(icnsChunks[idx], srcImage, call.scalingAlgorithm,
                                     ClampColors(call.numOfColors), outBuffer, TheCaches,
                                     fault))

\* one iteration of createICO's loop; after the last one "done" is logged and
\* the concatenated buffer is returned.  An exception leaves createICO.
IcoEntryDone(o) ==
    /\ SetCaches(o.caches)
    /\ ops' = ops \o o.ops
    /\ IF o.threw
       THEN /\ log' = log
            /\ result' = Threw
            /\ pc' = "idle"
            /\ NoLocals
       ELSE IF idx < Len(icoChunkSizes)
       THEN /\ log' = log \o o.log
            /\ icoDirectory' = o.value.icoDirectory
            /\ icoChunkImages' = o.value.icoChunkImages
            /\ totalLength' = o.value.totalLength
            /\ chunkOffset' = o.value.chunkOffset
            /\ idx' = idx + 1
            /\ UNCHANGED <<pc, result, srcImage, outBuffer>>
       ELSE /\ log' = log \o o.log \o << <<"done">> >>
            /\ result' = Returned(IcoFinish(o.value))
            /\ pc' = "idle"
            /\ NoLocals
    /\ UNCHANGED <<call, nCalls, hist, coldStart, pbVars, fnVars>>

\* createICO: the entry of the next size is built and collected
IcoEntryStep(fault) ==
    /\ pc = "ico"
    /\ IcoEntryDone(IcoEntry(icoChunkSizes[idx], srcImage, call.scalingAlgorithm,
                             call.numOfColors, call.PNG, call.forWinExe,
                             IcoState(icoDirectory, icoChunkImages, totalLength,
                                      chunkOffset),
                             TheCaches, fault))

clearCache ==
    /\ pc = "idle"
    /\ TheCaches # clearCacheOf(TheCaches)
    /\ SetCaches(clearCacheOf(TheCaches))
    /\ hist' = "mixed"
    /\ UNCHANGED <<pc, call, idx, srcImage, outBuffer, icoDirectory, icoChunkImages,
                   totalLength, chunkOffset, result, log, ops, nCalls, coldStart, pbVars, fnVars>>

Next ==
    \/ \E input \in Inputs, a \in Algorithms, n \in ColorCounts :
          createICNS(input, a, n)
    \/ \E input \in Inputs, a \in Algorithms, n \in ColorCounts, PNG \in BOOLEAN,
          forWinExe \in BOOLEAN :
          createICO(input, a, n, PNG, forWinExe)
    \/ \E fault \in Faults : IcnsChunkStep(fault)
    \/ \E fault \in Faults : IcoEntryStep(fault)
    \/ clearCache

Init == MainIdle /\ PBIdle /\ FnIdle

Spec == Init /\ [][Next]_vars

InitPB == PBInit /\ MainIdle /\ FnIdle

SpecPB == InitPB /\ [][PBNext]_vars

InitFn == FnInit /\ MainIdle /\ PBIdle

SpecFn == InitFn /\ [][FnNext]_vars

InitPBLoop == PBLoopInit /\ MainIdle /\ FnIdle

SpecPBLoop == InitPBLoop /\ [][PBLoopNext]_vars /\ WF_vars(PBLoopNext)

(***************************************************************************)
(* Reading a returned container back                                       *)
(***************************************************************************)
\* ICNS: the fields after the 8-byte file header, three per chunk
IcnsChunkCount(buf) == (Len(buf) - 2) \div 3
IcnsTag(buf, i)     == buf[3 * i]
IcnsLength(buf, i)  == buf[3 * i + 1]
IcnsPayload(buf, i) == buf[3 * i + 2]

IcnsWellFormed(buf) ==
    /\ Len(buf) >= 2 /\ (Len(buf) - 2) % 3 = 0
    /\ buf[1] = Ascii("icns")
    /\ buf[2].f = "u32be"
    /\ \A i \in 1..IcnsChunkCount(buf) :
          /\ IcnsTag(buf, i).f = "ascii"
          /\ IcnsLength(buf, i).f = "u32be"
          /\ IcnsPayload(buf, i).f = "bytes"

IcnsTags(buf) == [i \in 1..IcnsChunkCount(buf) |-> IcnsTag(buf, i).v]

RECURSIVE SumTo(_, _)
SumTo(f, n) == IF n = 0 THEN 0 ELSE f[n] + SumTo(f, n - 1)

\* ICO: ICONDIR is fields 1..3, entry i is the 8 fields after 3 + 8 * (i - 1)
IcoCount(buf)          == buf[3].v
IcoEntryField(buf, i, k) == buf[3 + 8 * (i - 1) + k]
IcoEntrySize(buf, i)   == IcoEntryField(buf, i, 7).v
IcoEntryOffset(buf, i) == IcoEntryField(buf, i, 8).v
IcoEntryWidth(buf, i)  == IcoEntryField(buf, i, 1).v
IcoEntryHeight(buf, i) == IcoEntryField(buf, i, 2).v

\* the payloads that follow the directory, found from the fields themselves:
\* a PNG is one "bytes" field, a BMP is the 11 fields of a BITMAPINFOHEADER
\* followed by the pixel and mask bytes of the DIB
IsPNGField(fld) == fld.f = "bytes" /\ fld.v.kind = "png"
IsBMPStart(buf, k) ==
    /\ k + 12 <= Len(buf)
    /\ buf[k] = UInt32LE(40)
    /\ buf[k + 11].f = "bytes" /\ buf[k + 11].v.kind = "dib"
    /\ buf[k + 12].f = "bytes" /\ buf[k + 12].v.kind = "mask"

RECURSIVE IcoPayloadsFrom(_, _)
IcoPayloadsFrom(buf, k) ==
    IF k > Len(buf) THEN <<>>
    ELSE IF IsPNGField(buf[k])
         THEN <<[kind |-> "png", first |-> k, last |-> k]>> \o IcoPayloadsFrom(buf, k + 1)
    ELSE IF IsBMPStart(buf, k)
         THEN <<[kind |-> "bmp", first |-> k, last |-> k + 12]>>
              \o IcoPayloadsFrom(buf, k + 13)
    ELSE <<[kind |-> "unknown", first |-> k, last |-> Len(buf)]>>

IcoPayloads(buf) == IcoPayloadsFrom(buf, 3 + 8 * IcoCount(buf) + 1)

PayloadOffset(buf, p) == FieldOffset(buf, p.first)
PayloadLength(buf, p) == FieldBytes(buf, p.first, p.last)

IcoKinds(buf) == [i \in DOMAIN IcoPayloads(buf) |-> IcoPayloads(buf)[i].kind]

ReturnedICNS == pc = "idle" /\ result.kind = "buffer" /\ call.fn = "createICNS"
ReturnedICO  == pc = "idle" /\ result.kind = "buffer" /\ call.fn = "createICO"

(***************************************************************************)
(* Claims                                                                  *)
(***************************************************************************)

\* C1: decode(encode(b)) = b for every byte sequence b, including lengths
\* 0, 1 and 2, all-equal runs longer than 130 bytes and mixed runs
C1_RoundTrip == pbPc = "decoded" => pbDec = pbIn

\* an all-equal run longer than the repeat cap has been encoded and decoded
C1_Witness ==
    /\ pbPc = "decoded"
    /\ Len(pbIn) > MaxRepeat
    /\ \A k \in DOMAIN pbIn : pbIn[k] = pbIn[1]
    /\ pbDec = pbIn

\* C2: in every buffer createICNS returns, the 32-bit big-endian field at
\* offset 4 holds the buffer's length, every chunk's length field is its
\* payload length + 8, and 8 + the sum of the chunk lengths is the buffer's
\* length
C2_IcnsFraming ==
    ReturnedICNS =>
        LET buf == result.buf IN
        /\ IcnsWellFormed(buf)
        /\ FieldOffset(buf, 2) = 4
        /\ buf[2].v = BufLen(buf)
        /\ \A i \in 1..IcnsChunkCount(buf) :
              IcnsLength(buf, i).v = IcnsPayload(buf, i).n + 8
        /\ 8 + SumTo([i \in 1..IcnsChunkCount(buf) |-> IcnsLength(buf, i).v],
                     IcnsChunkCount(buf)) = BufLen(buf)

\* createICNS has returned the file of a non-square input
C2_Witness ==
    /\ ReturnedICNS
    /\ call.input = "png98x49"
    /\ IcnsChunkCount(result.buf) > 0

\* C3: a buffer createICNS returns holds exactly 12 chunks whose tags read
\* ic12, ic07, ic13, ic08, ic14, ic09, ic10, ic11, il32, l8mk, is32, s8mk,
\* and while the call runs the chunks built so far are the first ones of that
\* list, in order
C3_ExpectedTags ==
    <<"ic12", "ic07", "ic13", "ic08", "ic14", "ic09", "ic10", "ic11",
      "il32", "l8mk", "is32", "s8mk">>

C3_ChunkOrder ==
    /\ ReturnedICNS => IcnsTags(result.buf) = C3_ExpectedTags
    /\ pc = "icns" => IcnsTags(outBuffer) = SubSeq(C3_ExpectedTags, 1, idx - 1)

\* createICNS has returned a file built with a warm cache (a second call)
C3_Witness ==
    /\ ReturnedICNS
    /\ nCalls = 2
    /\ Len(IcnsTags(result.buf)) = 12
    /\ ops = <<>>

\* C4: in every buffer createICO returns, the count is 9, entry i's offset is
\* 6 + 16 * 9 + the lengths of the payloads before it and is where its
\* payload starts, its size is the length of its payload, and the last
\* payload ends at the end of the buffer
C4_IcoFraming ==
    ReturnedICO =>
        LET buf == result.buf
            ps  == IcoPayloads(buf)
        IN
        /\ IcoCount(buf) = 9
        /\ Len(ps) = 9
        /\ \A i \in 1..9 :
              /\ ps[i].kind \in {"png", "bmp"}
              /\ IcoEntryOffset(buf, i)
                    = 6 + 16 * 9 + SumTo([j \in 1..9 |-> PayloadLength(buf, ps[j])], i - 1)
              /\ IcoEntryOffset(buf, i) = PayloadOffset(buf, ps[i])
              /\ IcoEntrySize(buf, i) = PayloadLength(buf, ps[i])
              /\ i > 1 => IcoEntryOffset(buf, i) > IcoEntryOffset(buf, i - 1)
        /\ IcoEntryOffset(buf, 9) + IcoEntrySize(buf, 9) = BufLen(buf)

\* createICO has returned a file that mixes PNG and BMP payloads
C4_Witness ==
    /\ ReturnedICO
    /\ \E i, j \in 1..9 : IcoKinds(result.buf)[i] = "png" /\ IcoKinds(result.buf)[j] = "bmp"

\* C5: with forWinExe = true the entries of size < 64 are BMP and those of
\* size >= 64 are PNG, whatever the PNG flag
C5_WinExeMix ==
    (ReturnedICO /\ call.forWinExe) =>
        \A i \in 1..9 :
            IcoKinds(result.buf)[i] = IF icoChunkSizes[i] < 64 THEN "bmp" ELSE "png"

\* C6: with forWinExe false all 9 entries are PNG if the PNG flag is true and
\* all 9 are BMP if it is false
C6_AllOneFormat ==
    (ReturnedICO /\ ~call.forWinExe) =>
        IcoKinds(result.buf) = [i \in 1..9 |-> IF call.PNG THEN "png" ELSE "bmp"]

\* createICO has returned an all-BMP file and, in another call, an all-PNG one
C6_Witness ==
    /\ ReturnedICO /\ ~call.forWinExe /\ ~call.PNG
    /\ call.input = "png98x49"
    /\ \A i \in 1..9 : IcoKinds(result.buf)[i] = "bmp"

\* C7: when a step of building a chunk or entry throws, the call returns
\* null: no exception reaches the caller, no later chunk or entry is built
\* and no buffer is returned
C7_FailureReturnsNull ==
    [][(pc # "idle" /\ pc' = "idle" /\ result'.kind # "buffer")
          => result' = ReturnedNull]_vars

\* C8: when the input cannot be decoded the call returns null at once: no
\* resample, no PNG encode, no cache insertion, no "done" event
C8_Step ==
    (pc = "idle" /\ nCalls' = nCalls + 1 /\ ~UPNG_decodable(call'.input)) =>
        /\ pc' = "idle"
        /\ result' = ReturnedNull
        /\ \A k \in DOMAIN ops' : ops'[k][1] \notin {"resample", "encode"}
        /\ \A k \in DOMAIN log' : log'[k] # <<"done">>
        /\ scaledImageCache' \in {scaledImageCache, <<>>}
        /\ scaledPNGImageCache' \in {scaledPNGImageCache, <<>>}

C8_DecodeFailure == [][C8_Step]_vars

\* a second call, given an undecodable input, has cleared the caches and
\* returned null
C8_Witness ==
    /\ pc = "idle"
    /\ nCalls = 2
    /\ call.input = "notapng"
    /\ result = ReturnedNull
    /\ ops = << <<"clearCache", 0, 0>> >>

\* C9: when every call so far was given the same input and clearCache was
\* not called, a call returns the bytes it returns when started with empty
\* caches, whatever its scaling algorithm, colour count and flags
C9_CacheTransparent ==
    (pc = "idle" /\ result.kind = "buffer" /\ hist = call.input) =>
        result.buf = RunCall(call, EmptyCaches)

\* C10: a call whose input differs from the one in the slot empties both
\* tables and sets the slot before it resamples or encodes anything, and no
\* payload of a returned buffer was computed from another input
C10_Step ==
    (/\ pc = "idle" /\ nCalls' = nCalls + 1
     /\ call'.input # Null /\ currentImage # Null
     /\ BuffersDiffer(call'.input, currentImage)) =>
        /\ scaledImageCache' = <<>>
        /\ scaledPNGImageCache' = <<>>
        /\ currentImage' = call'.input
        /\ ops' = << <<"clearCache", 0, 0>> >>

C10_Payloads ==
    result.kind = "buffer" =>
        \A k \in DOMAIN result.buf :
            result.buf[k].f = "bytes" => InputOf(result.buf[k].v) = call.input

C10_Invalidation == [][C10_Step]_vars /\ []C10_Payloads

\* a call has returned a buffer after clearing the entries of another input
C10_Witness ==
    /\ pc = "idle"
    /\ result.kind = "buffer"
    /\ nCalls = 2
    /\ Len(ops) > 1
    /\ ops[1] = <<"clearCache", 0, 0>>

\* the square source of the running / last call and what the call needs of it
CallSource == getQuadraticImage(getImageFromPNG(call.input))
CallSizes ==
    IF call.fn = "createICNS"
    THEN {icnsChunks[i].Size : i \in DOMAIN icnsChunks}
    ELSE {icoChunkSizes[i] : i \in DOMAIN icoChunkSizes}
CallRect(size) ==
    getStretchedRect(getRect(0, 0, CallSource.width, CallSource.height),
                     getRect(0, 0, size, size))
CallPNGSizes ==
    IF call.fn = "createICNS"
    THEN {icnsChunks[i].Size : i \in {j \in DOMAIN icnsChunks : icnsChunks[j].Format = "PNG"}}
    ELSE {size \in CallSizes : UsePNG(call.PNG, call.forWinExe, CallRect(size))}
Did(op, rect) == \E k \in DOMAIN ops : ops[k] = <<op, rect.Width, rect.Height>>

\* C11: a clearCache step leaves both tables empty and the slot null, and a
\* create call that started with empty tables resamples every size it needs
\* that is not the size of its source, and encodes every PNG it needs
C11_Step ==
    (pc = "idle" /\ nCalls' = nCalls) =>
        /\ scaledImageCache' = <<>>
        /\ scaledPNGImageCache' = <<>>
        /\ currentImage' = Null

C11_Recomputed ==
    (pc = "idle" /\ result.kind = "buffer" /\ coldStart) =>
        /\ \A size \in CallSizes :
              (CallRect(size).Width # CallSource.width
                  \/ CallRect(size).Height # CallSource.height)
              => Did("resample", CallRect(size))
        /\ \A size \in CallPNGSizes : Did("encode", CallRect(size))

C11_ClearCache == [][C11_Step]_vars /\ []C11_Recomputed

\* clearCache has run after a call that returned a buffer
C11_Witness ==
    /\ pc = "idle"
    /\ result.kind = "buffer"
    /\ scaledImageCache = <<>>
    /\ scaledPNGImageCache = <<>>
    /\ currentImage = Null

\* a padded bitmap: square of edge max(w, h), source pixel (x, y) stored at
\* (x + ox, y + oy), every byte outside the copied region 0
PaddedAt(image, out, ox, oy) ==
    LET w == image.width
        h == image.height
        edge == IF w > h THEN w ELSE h
    IN  /\ out.image.width = edge
        /\ out.image.height = edge
        /\ Len(out.pixels) = edge * edge * 4
        /\ \A x \in 0..(edge - 1), y \in 0..(edge - 1), c \in 0..3 :
              out.pixels[PixelIndex(edge, x, y) + c + 1] =
                  IF x - ox \in 0..(w - 1) /\ y - oy \in 0..(h - 1)
                  THEN image.data.bytes[PixelIndex(w, x - ox, y - oy) + c + 1]
                  ELSE 0

PadCase == fnPc = "out" /\ fnOut.op = "pad" /\ fnIn.image.width # fnIn.image.height

\* C12 (as stated): the offset on the shorter axis is floor((max - min) / 2)
C12_FloorOffset ==
    PadCase =>
        LET w == fnIn.image.width
            h == fnIn.image.height
        IN  PaddedAt(fnIn.image, fnOut,
                     IF w < h THEN (h - w) \div 2 ELSE 0,
                     IF h < w THEN (w - h) \div 2 ELSE 0)

\* C12 (amended): for every non-square w x h bitmap getQuadraticImage returns
\* a square of edge max(w, h) with source pixel (x, y) at (x + ox, y + oy),
\* offset 0 on the longer axis and (max - min) / 2 rounded half up on the
\* shorter one, and all bytes outside the copied region 0
C12_RoundedOffset ==
    PadCase =>
        LET w == fnIn.image.width
            h == fnIn.image.height
        IN  PaddedAt(fnIn.image, fnOut,
                     IF w < h THEN (h - w + 1) \div 2 ELSE 0,
                     IF h < w THEN (w - h + 1) \div 2 ELSE 0)

\* a bitmap whose sides differ by an odd number has been padded
C12_Witness ==
    /\ PadCase
    /\ (fnIn.image.width - fnIn.image.height) % 2 = 1
    /\ \E k \in DOMAIN fnOut.pixels : fnOut.pixels[k] = 0
    /\ \E k \in DOMAIN fnOut.pixels : fnOut.pixels[k] # 0

FitCase == fnPc = "out" /\ fnOut.op = "fit"

\* C13: getStretchedRect returns, when src.W/src.H >= dst.W/dst.H, Left = 0,
\* Width = dst.W, Height = floor(src.H * dst.W / src.W) and
\* Top = floor((dst.H - Height) / 2), and otherwise Top = 0, Height = dst.H,
\* Width = floor(src.W * dst.H / src.H) and Left = floor((dst.W - Width) / 2);
\* the result lies inside dst
C13_ExactFit ==
    FitCase =>
        LET src == fnIn.src
            dst == fnIn.dst
            r == fnOut.rect
        IN  /\ IF src.Width * dst.Height >= dst.Width * src.Height
               THEN /\ r.Left = 0
                    /\ r.Width = dst.Width
                    /\ r.Height = (src.Height * dst.Width) \div src.Width
                    /\ r.Top = (dst.Height - r.Height) \div 2
               ELSE /\ r.Top = 0
                    /\ r.Height = dst.Height
                    /\ r.Width = (src.Width * dst.Height) \div src.Height
                    /\ r.Left = (dst.Width - r.Width) \div 2
            /\ r.Left >= 0 /\ r.Top >= 0
            /\ r.Left + r.Width <= dst.Width
            /\ r.Top + r.Height <= dst.Height

\* the part of C13 that the code keeps: the result lies inside dst, spans
\* one axis of dst and is centred on the other
C13_InsideDst ==
    FitCase =>
        LET dst == fnIn.dst
            r == fnOut.rect
        IN  /\ r.Left >= 0 /\ r.Top >= 0
            /\ r.Left + r.Width <= dst.Width
            /\ r.Top + r.Height <= dst.Height
            /\ r.Width = dst.Width \/ r.Height = dst.Height

\* the square 49 x 49 fitted into 64 x 64 comes out 64 x 63
C13_Shortfall ==
    /\ FitCase
    /\ fnIn.src.Width = 49 /\ fnIn.src.Height = 49
    /\ fnIn.dst.Width = 64 /\ fnIn.dst.Height = 64
    /\ fnOut.rect = [Left |-> 0, Top |-> 0, Width |-> 64, Height |-> 63]

\* the directory byte of an edge length: 0 stands for 256
DirByte(size) == IF size >= 256 THEN 0 ELSE size

\* C14: every createICO result has one entry per size 256, 128, 96, 72, 64,
\* 48, 32, 24, 16, and the entry for size s records width s and height s
C14_SquareEntries ==
    ReturnedICO =>
        /\ IcoCount(result.buf) = Len(icoChunkSizes)
        /\ \A i \in 1..Len(icoChunkSizes) :
              /\ IcoEntryWidth(result.buf, i) = DirByte(icoChunkSizes[i])
              /\ IcoEntryHeight(result.buf, i) = DirByte(icoChunkSizes[i])

\* a 98 x 49 source leaves the directory with the 256 entry at 256 x 255
C14_Shortfall ==
    /\ ReturnedICO
    /\ call.input = "png98x49"
    /\ IcoEntryWidth(result.buf, 1) = 0
    /\ IcoEntryHeight(result.buf, 1) = 255

\* chunk i is the PackBits RGB chunk rgb and chunk i + 1 the alpha chunk
\* mask, both computed from one and the same resampled bitmap
PairedAt(buf, i, rgb, mask) ==
    /\ i + 1 <= IcnsChunkCount(buf)
    /\ IcnsTag(buf, i).v = rgb
    /\ IcnsTag(buf, i + 1).v = mask
    /\ IcnsPayload(buf, i).v.kind = "packbits"
    /\ IcnsPayload(buf, i).v.channels = <<0, 1, 2>>
    /\ IcnsPayload(buf, i + 1).v.kind = "channel"
    /\ IcnsPayload(buf, i + 1).v.channelIndex = 3
    /\ IcnsPayload(buf, i + 1).v.image = IcnsPayload(buf, i).v.image

\* the chunk tagged rgb is immediately followed by its mask chunk
Paired(buf, rgb, mask) ==
    \A i \in 1..IcnsChunkCount(buf) :
        IcnsTag(buf, i).v = rgb => PairedAt(buf, i, rgb, mask)

\* the length of the payload of the chunk tagged tag is n
MaskLength(buf, tag, n) ==
    \A i \in 1..IcnsChunkCount(buf) :
        IcnsTag(buf, i).v = tag => IcnsPayload(buf, i).n = n

\* C15: in every createICNS result il32 is immediately followed by l8mk and
\* is32 by s8mk, each mask payload is the alpha channel of the same resampled
\* bitmap as its RGB partner, and the mask payloads are 1024 and 256 bytes
C15_PairedMasks ==
    ReturnedICNS =>
        /\ Paired(result.buf, "il32", "l8mk")
        /\ Paired(result.buf, "is32", "s8mk")
        /\ MaskLength(result.buf, "l8mk", 32 * 32)
        /\ MaskLength(result.buf, "s8mk", 16 * 16)

\* the part of C15 that the code keeps: the pairing and the shared bitmap
C15_PairedOnly ==
    ReturnedICNS =>
        /\ Paired(result.buf, "il32", "l8mk")
        /\ Paired(result.buf, "is32", "s8mk")
        /\ \E i \in 1..IcnsChunkCount(result.buf) : IcnsTag(result.buf, i).v = "il32"
        /\ \E i \in 1..IcnsChunkCount(result.buf) : IcnsTag(result.buf, i).v = "is32"

\* a 98 x 49 source leaves the l8mk chunk with 32 * 31 bytes
C15_ShortMask ==
    /\ ReturnedICNS
    /\ call.input = "png98x49"
    /\ MaskLength(result.buf, "l8mk", 32 * 31)
    /\ \E i \in 1..IcnsChunkCount(result.buf) : IcnsTag(result.buf, i).v = "l8mk"

SameSizeCase ==
    /\ fnPc = "out" /\ fnOut.op = "scale"
    /\ fnIn.destRect.Width = fnIn.image.width
    /\ fnIn.destRect.Height = fnIn.image.height

\* C16: getScaledImageData with a destination rectangle of the source's
\* width and height returns the source data itself, for every algorithm and
\* whatever scaledImageCache holds, and leaves the cache alone
C16_SameSizeIdentity ==
    SameSizeCase =>
        /\ ~fnOut.outcome.threw
        /\ fnOut.outcome.value = fnIn.image.data
        /\ fnOut.outcome.cache = fnIn.cache
        /\ fnOut.outcome.ops = <<>>

\* a same-size request with an algorithm other than nearest neighbour, made
\* while the cache holds another bitmap of that size, returned the source data
C16_Witness ==
    /\ SameSizeCase
    /\ fnIn.scalingAlgorithm = BICUBIC2
    /\ fnIn.cache # <<>>
    /\ fnOut.outcome.value = fnIn.image.data

\* colour counts below, inside and above the range 0..MAX_COLORS
AnyColors == {0 - 1, 0, 16, 300}

\* the outcome of the loop iteration a running createICO call is about to
\* make, had the call been given numOfColors n
IcoEntryWith(n, fault) ==
    IcoEntry(icoChunkSizes[idx], srcImage, call.scalingAlgorithm, n, call.PNG,
             call.forWinExe,
             IcoState(icoDirectory, icoChunkImages, totalLength, chunkOffset),
             TheCaches, fault)

\* C17: in a createICO call with PNG = false and forWinExe = false every loop
\* iteration has the same outcome (buffers, caches, exception) for every
\* numOfColors, from whatever cache state it starts, and the bytes a call
\* returns are those the other colour counts give
C17_ColorsIgnored ==
    /\ (pc = "ico" /\ ~call.PNG /\ ~call.forWinExe) =>
          \A n \in AnyColors, fault \in Faults :
              IcoEntryWith(n, fault) = IcoEntryWith(call.numOfColors, fault)
    /\ (ReturnedICO /\ ~call.PNG /\ ~call.forWinExe /\ coldStart) =>
          \A n \in AnyColors :
              result.buf = RunCall([call EXCEPT !.numOfColors = n], EmptyCaches)

\* a BMP-only createICO call with a colour count has returned a buffer
\* without PNG payloads while PNGs of an earlier call were in the cache
C17_Witness ==
    /\ ReturnedICO /\ ~call.PNG /\ ~call.forWinExe
    /\ call.numOfColors = 16
    /\ scaledPNGImageCache # <<>>
    /\ \A i \in 1..9 : IcoKinds(result.buf)[i] = "bmp"
    /\ result.buf = RunCall([call EXCEPT !.numOfColors = 300], TheCaches)

\* The records of an encoding, read off the list of buffers encode collects:
\* a 2-byte buffer is a repeat record (header, value), a 1-byte buffer is the
\* header of a literal record whose payload is the buffer after it.  start is
\* the number of input bytes the records before it stand for: header - 125
\* for a repeat record, the payload length for a literal one.
RECURSIVE Records(_, _, _)
Records(bufs, k, start) ==
    IF k > Len(bufs) THEN <<>>
    ELSE IF Len(bufs[k]) = 2
    THEN << [kind |-> "repeat", header |-> bufs[k][1], payload |-> <<bufs[k][2]>>,
             start |-> start, last |-> FALSE] >>
         \o Records(bufs, k + 1, start + bufs[k][1] - 125)
    ELSE << [kind |-> "literal", header |-> bufs[k][1], payload |-> bufs[k + 1],
             start |-> start, last |-> (k + 1 = Len(bufs))] >>
         \o Records(bufs, k + 2, start + Len(bufs[k + 1]))

Encoded == pbPc \in {"encoded", "decoded"}

\* record r is [L + 128 - 3, value] for L equal bytes of the input, 3 <= L <= 130
IsRunRecord(r) ==
    LET L == r.header - 125
    IN  /\ L \in 3..MaxRepeat
        /\ r.start + L <= Len(pbIn)
        /\ \A k \in 1..L : pbIn[r.start + k] = r.payload[1]

\* C18 (as stated): repeat headers lie in 131..255
C18_HeadersFrom131 ==
    Encoded =>
        LET recs == Records(EncodeBufs(pbIn, 0), 1, 0)
        IN  \A i \in DOMAIN recs :
                IF recs[i].kind = "repeat"
                THEN IsRunRecord(recs[i]) /\ recs[i].header \in 131..255
                ELSE recs[i].header \in 0..127

\* C18 (amended): the encoding is the concatenation of its records; every
\* repeat record is [L + 128 - 3, value] for a run of L equal input bytes with
\* 3 <= L <= 130, so its header lies in 128..255; every literal header lies
\* in 0..127
C18_HeaderRanges ==
    Encoded =>
        LET bufs == EncodeBufs(pbIn, 0)
            recs == Records(bufs, 1, 0)
        IN  /\ pbEnc = ConcatBufs(bufs)
            /\ \A i \in DOMAIN recs :
                  IF recs[i].kind = "repeat"
                  THEN IsRunRecord(recs[i]) /\ recs[i].header \in 128..255
                  ELSE recs[i].header \in 0..127

\* an encoding holds a repeat record for a run of 3 (header 128), one for a
\* run of 130 (header 255) or a literal record of 128 bytes (header 127)
C18_Witness ==
    /\ Encoded
    /\ LET recs == Records(EncodeBufs(pbIn, 0), 1, 0)
       IN  /\ \E i \in DOMAIN recs : recs[i].kind = "repeat" /\ recs[i].header = 128
           /\ \E i \in DOMAIN recs :
                 \/ recs[i].kind = "repeat" /\ recs[i].header = 255
                 \/ recs[i].kind = "literal" /\ recs[i].header = 127

\* the input bytes record r stands for
Covered(r) == IF r.kind = "repeat" THEN r.header - 125 ELSE Len(r.payload)

\* C19: when 1 or 2 input bytes remain at the scan position, encode emits
\* one last literal record whose header is the number n of those bytes and
\* whose payload is those n bytes; every other literal record has header
\* payload length - 1 and at least 3 input bytes left at its start
C19_TailRule ==
    Encoded =>
        LET recs == Records(EncodeBufs(pbIn, 0), 1, 0)
        IN  \A i \in DOMAIN recs :
                LET r == recs[i]
                    remaining == Len(pbIn) - r.start
                IN  /\ remaining >= 1
                    /\ remaining < 3 =>
                          /\ r.kind = "literal"
                          /\ i = Len(recs)
                          /\ r.header = remaining
                          /\ r.payload = SubSeq(pbIn, r.start + 1, Len(pbIn))
                    /\ (remaining >= 3 /\ r.kind = "literal") =>
                          /\ r.header = Len(r.payload) - 1
                          /\ r.payload = SubSeq(pbIn, r.start + 1, r.start + Len(r.payload))
                    /\ i = Len(recs) => r.start + Covered(r) = Len(pbIn)

\* an input was encoded with a literal record of the usual form followed by
\* a tail record for its last two bytes
C19_Witness ==
    /\ Encoded
    /\ LET recs == Records(EncodeBufs(pbIn, 0), 1, 0)
       IN  /\ Len(recs) >= 2
           /\ recs[Len(recs)].kind = "literal"
           /\ recs[Len(recs)].header = 2
           /\ Len(recs[Len(recs)].payload) = 2
           /\ recs[1].kind = "literal"
           /\ recs[1].header = Len(recs[1].payload) - 1

\* three consecutive equal bytes somewhere in a byte sequence
HasTriple(bytes) ==
    \E k \in 1..(Len(bytes) - 2) : bytes[k] = bytes[k + 1] /\ bytes[k + 1] = bytes[k + 2]

\* C20: no literal record of an encoding has a payload with three
\* consecutive equal bytes, and no literal payload is longer than 128 bytes
C20_NoTripleInLiteral ==
    Encoded =>
        LET recs == Records(EncodeBufs(pbIn, 0), 1, 0)
        IN  \A i \in DOMAIN recs :
                recs[i].kind = "literal" =>
                    /\ ~HasTriple(recs[i].payload)
                    /\ Len(recs[i].payload) <= MaxLiteral

\* the part of C20 that the code keeps: literal payloads have at most 128
\* bytes, and three equal bytes in a row occur in them only as the second to
\* fourth byte
C20_SecondByteOnly ==
    Encoded =>
        LET recs == Records(EncodeBufs(pbIn, 0), 1, 0)
        IN  \A i \in DOMAIN recs :
                recs[i].kind = "literal" =>
                    LET bytes == recs[i].payload
                    IN  /\ Len(bytes) <= MaxLiteral
                        /\ \A k \in 1..(Len(bytes) - 2) :
                              (bytes[k] = bytes[k + 1] /\ bytes[k + 1] = bytes[k + 2]) => k = 2

\* the input 0, 1, 1, 1, 0 is encoded as one literal record of five bytes
C20_MissedRun ==
    /\ Encoded
    /\ pbIn = <<0, 1, 1, 1, 0>>
    /\ pbEnc = <<4, 0, 1, 1, 1, 0>>

BicubicCase == fnPc = "out" /\ fnOut.op = "bicubic"

\* the samples of window win lie in rows and columns of the source, and the
\* bytes read for them inside its buffer
WindowInside(srcImg, win) ==
    \A a, b \in 1..4 :
        LET first == win.rows[a] + win.cols[b]
            row   == (win.rows[a] - win.ix0 * 4) \div (4 * srcImg.width)
            col   == win.ix0 + win.cols[b] \div 4
        IN  /\ row \in 0..(srcImg.height - 1)
            /\ col \in 0..(srcImg.width - 1)
            /\ first >= 0
            /\ first + 3 < srcImg.width * srcImg.height * 4

\* C21: for every source of width and height >= 1 and every destination
\* pixel, the 16 samples of the bicubic window lie in rows and columns of the
\* source and none of their indexes lies outside the source buffer
C21_WindowInside ==
    BicubicCase => \A win \in fnOut.windows : WindowInside(fnIn.image, win)

\* the part of C21 that the code keeps: sources of width and height >= 3
C21_InsideFrom3 ==
    (BicubicCase /\ fnIn.image.width >= 3 /\ fnIn.image.height >= 3) =>
        \A win \in fnOut.windows : WindowInside(fnIn.image, win)

\* a 1 x 1 source: the window reaches to row 2 and column 2, bytes 4..19 of
\* a buffer of 4 bytes
C21_OutsideRead ==
    /\ BicubicCase
    /\ fnIn.image.width = 1 /\ fnIn.image.height = 1
    /\ \E win \in fnOut.windows : win.rows = <<0, 0, 4, 8>> /\ win.cols = <<0, 0, 4, 8>>

DIBCase == fnPc = "out" /\ fnOut.op = "dib"

\* C22: the first w * h * 4 bytes of getDIB's result hold the source pixel
\* of row r, column c (bytes R, G, B, A) at row h - 1 - r, column c as the
\* bytes B, G, R, A, and the source bitmap is left as it was
C22_BottomUpBGRA ==
    DIBCase =>
        LET w   == fnIn.image.width
            h   == fnIn.image.height
            src == fnIn.image.data.bytes
            At0(bytes, row, col, c) == bytes[PixelIndex(w, col, row) + c + 1]
        IN  /\ Len(fnOut.DIB) >= w * h * 4
            /\ \A r \in 0..(h - 1), c \in 0..(w - 1) :
                  /\ At0(fnOut.DIB, h - 1 - r, c, 0) = At0(src, r, c, 2)
                  /\ At0(fnOut.DIB, h - 1 - r, c, 1) = At0(src, r, c, 1)
                  /\ At0(fnOut.DIB, h - 1 - r, c, 2) = At0(src, r, c, 0)
                  /\ At0(fnOut.DIB, h - 1 - r, c, 3) = At0(src, r, c, 3)
            /\ fnOut.image = fnIn.image

\* a bitmap of three rows that differ has been converted
C22_Witness ==
    /\ DIBCase
    /\ fnIn.image.height = 3 /\ fnIn.image.width = 2
    /\ SubSeq(fnOut.DIB, 1, 8) # SubSeq(fnIn.image.data.bytes, 1, 8)
    /\ fnOut.DIB[1] = fnIn.image.data.bytes[2 * 8 + 3]

\* bit x (0 = most significant) of a byte
BitOf(byte, x) == (byte \div Pow2(7 - x)) % 2

\* C23: in getDIB's result the mask follows the w * h * 4 pixel bytes and has
\* ceil(w / 32) * 32 * h / 8 bytes; a mask row takes ceil(w / 32) * 32 bits,
\* most significant bit first; the bit of row k, column c is 1 exactly when
\* the alpha byte of the pixel stored at row k, column c of the pixel data
\* is 0, and the padding bits are 0
C23_MaskLayout ==
    DIBCase =>
        LET w       == fnIn.image.width
            h       == fnIn.image.height
            rowBits == ((w + 31) \div 32) * 32
            mask    == SubSeq(fnOut.DIB, w * h * 4 + 1, Len(fnOut.DIB))
            MaskBit(k, c) == BitOf(mask[(k * rowBits + c) \div 8 + 1], c % 8)
        IN  /\ Len(mask) = (rowBits * h) \div 8
            /\ \A k \in 0..(h - 1) :
                  /\ \A c \in 0..(w - 1) :
                        MaskBit(k, c) = 1 <=> fnOut.DIB[PixelIndex(w, c, k) + 3 + 1] = 0
                  /\ \A c \in w..(rowBits - 1) : MaskBit(k, c) = 0

\* a bitmap wider than 32 pixels with transparent and opaque pixels in
\* rows that differ has been converted: two mask words per row
C23_Witness ==
    /\ DIBCase
    /\ fnIn.image.width = 33 /\ fnIn.image.height = 3
    /\ Len(fnOut.DIB) = 33 * 3 * 4 + 24
    /\ \E k \in (33 * 3 * 4 + 1)..Len(fnOut.DIB) : fnOut.DIB[k] \notin {0, 255}
    /\ SubSeq(fnOut.DIB, 33 * 3 * 4 + 1, 33 * 3 * 4 + 8)
          # SubSeq(fnOut.DIB, 33 * 3 * 4 + 17, 33 * 3 * 4 + 24)

\* the fields of a buffer are written little-endian, one after the other
LittleEndian(buf) == \A k \in DOMAIN buf : buf[k].f \in {"u32le", "i32le", "u16le"}

\* the values and byte offsets of the fields of a buffer
FieldValues(buf)  == [k \in DOMAIN buf |-> buf[k].v]
FieldOffsets(buf) == [k \in DOMAIN buf |-> FieldOffset(buf, k)]

\* C24: getBITMAPINFOHEADER returns 40 bytes, little-endian: header size 40,
\* width w, height 2 * h, planes 1, bits per pixel 32, compression 0, image
\* size w * h * 4 + mask length (the length of getDIB's result), resolution
\* 3780 / 3780, colours 0 and important colours 0
C24_InfoHeader ==
    DIBCase =>
        LET w == fnIn.image.width
            h == fnIn.image.height
            maskLength == (((w + 31) \div 32) * 32 * h) \div 8
        IN  /\ BufLen(fnOut.header) = 40
            /\ LittleEndian(fnOut.header)
            /\ FieldOffsets(fnOut.header) = <<0, 4, 8, 12, 14, 16, 20, 24, 28, 32, 36>>
            /\ FieldValues(fnOut.header)
                  = <<40, w, 2 * h, 1, 32, 0, w * h * 4 + maskLength, 3780, 3780, 0, 0>>
            /\ fnOut.header[7].v = Len(fnOut.DIB)

\* the header of a 33 x 3 bitmap: height 6, image size 396 + 24
C24_Witness ==
    /\ DIBCase
    /\ fnIn.image.width = 33 /\ fnIn.image.height = 3
    /\ fnOut.header[3] = Int32LE(6)
    /\ fnOut.header[7] = UInt32LE(420)

\* the operations the step just taken has added to ops
NewOps == IF Len(ops') >= Len(ops) /\ SubSeq(ops', 1, Len(ops)) = ops
          THEN SubSeq(ops', Len(ops) + 1, Len(ops')) ELSE <<>>
CountOps(done, op) == Cardinality({k \in DOMAIN done : done[k][1] = op})

HasScaled(cache, w, h) == \E k \in DOMAIN cache : cache[k].width = w /\ cache[k].height = h
HasPNG(cache, w, h)    == \E k \in DOMAIN cache : cache[k].Width = w /\ cache[k].Height = h

\* no two entries of a table have the same width and height
C25_Unique ==
    /\ \A a, b \in DOMAIN scaledImageCache :
          (scaledImageCache[a].width = scaledImageCache[b].width
              /\ scaledImageCache[a].height = scaledImageCache[b].height) => a = b
    /\ \A a, b \in DOMAIN scaledPNGImageCache :
          (scaledPNGImageCache[a].Width = scaledPNGImageCache[b].Width
              /\ scaledPNGImageCache[a].Height = scaledPNGImageCache[b].Height) => a = b

\* a loop iteration resamples or encodes a size only when its table has no
\* entry of that size, the table has one afterwards, and a table grows by
\* exactly the entries computed and keeps the ones it had
C25_Step ==
    pc \in {"icns", "ico"} =>
        /\ \A k \in DOMAIN NewOps :
              /\ NewOps[k][1] = "resample" =>
                    /\ ~HasScaled(scaledImageCache, NewOps[k][2], NewOps[k][3])
                    /\ HasScaled(scaledImageCache', NewOps[k][2], NewOps[k][3])
              /\ NewOps[k][1] = "encode" =>
                    /\ ~HasPNG(scaledPNGImageCache, NewOps[k][2], NewOps[k][3])
                    /\ HasPNG(scaledPNGImageCache', NewOps[k][2], NewOps[k][3])
        /\ Len(scaledImageCache') = Len(scaledImageCache) + CountOps(NewOps, "resample")
        /\ Len(scaledPNGImageCache') = Len(scaledPNGImageCache) + CountOps(NewOps, "encode")
        /\ SubSeq(scaledImageCache', 1, Len(scaledImageCache)) = scaledImageCache
        /\ SubSeq(scaledPNGImageCache', 1, Len(scaledPNGImageCache)) = scaledPNGImageCache

\* C25: each table holds at most one entry per (width, height) in every
\* reachable state, and a resample or PNG encode happens only on a miss and
\* inserts its result
C25_LookupBeforeCompute == [][C25_Step]_vars /\ []C25_Unique

\* a createICO call after a createICNS call on the same input has returned:
\* it resampled 24 x 24 and took 32 x 32 from the table
C25_Witness ==
    /\ ReturnedICO
    /\ nCalls = 2
    /\ call.input = "png64x64"
    /\ \E k \in DOMAIN ops : ops[k] = <<"resample", 24, 24>>
    /\ ~\E k \in DOMAIN ops : ops[k] = <<"resample", 32, 32>>
    /\ HasScaled(scaledImageCache, 32, 32)
    /\ HasScaled(scaledImageCache, 1024, 1024)

FrameCase == fnPc = "out" /\ fnOut.op = "frame"

\* C26: PackBits encoding, alpha extraction, BMP header and DIB building
\* leave the bytes of the resampled bitmap they are given (an entry of the
\* scaled-bitmap table or the padded source) as they were
C26_BitmapsUntouched ==
    FrameCase => fnOut.heap["image"] = fnIn.image.data.bytes

\* a DIB that differs from its bitmap has been built next to it
C26_Witness ==
    /\ FrameCase
    /\ fnIn.format = "bmp"
    /\ fnIn.image.height = 3
    /\ fnOut.heap["DIB"] # <<>>
    /\ fnOut.heap["DIB"] # fnOut.heap["image"]
    /\ fnOut.heap["bitmap"] = fnOut.heap["image"]

PackBitsCase == FrameCase /\ fnIn.format = "PackBitsRGB"

\* C27: the il32 / is32 payload is encode(R) ++ encode(G) ++ encode(B), and
\* decoding it gives R ++ G ++ B
C27_SelfDelimiting ==
    PackBitsCase =>
        LET bytes == fnIn.image.data.bytes
            R == ChannelBytes(bytes, 0)
            G == ChannelBytes(bytes, 1)
            B == ChannelBytes(bytes, 2)
        IN  /\ fnOut.heap["encodedIcon"] = encode(R) \o encode(G) \o encode(B)
            /\ decode(fnOut.heap["encodedIcon"]) = R \o G \o B

\* the part of C27 that the code keeps: the payload is the concatenation of
\* the three channel encodings, and it decodes to the channels when the
\* encodings of R and G do not end in a tail record
C27_WithoutTail ==
    PackBitsCase =>
        LET bytes == fnIn.image.data.bytes
            R == ChannelBytes(bytes, 0)
            G == ChannelBytes(bytes, 1)
            B == ChannelBytes(bytes, 2)
            EndsInTail(ch) ==
                LET recs == Records(EncodeBufs(ch, 0), 1, 0)
                IN  recs # <<>> /\ Len(ch) - recs[Len(recs)].start < 3
        IN  /\ fnOut.heap["encodedIcon"] = encode(R) \o encode(G) \o encode(B)
            /\ (~EndsInTail(R) /\ ~EndsInTail(G)) =>
                  decode(fnOut.heap["encodedIcon"]) = R \o G \o B

\* a bitmap of one pixel: the tail record [1, r] of the red channel takes the
\* header of the green channel's encoding as its second literal byte
C27_TailSwallowsHeader ==
    /\ PackBitsCase
    /\ Len(fnIn.image.data.bytes) = 4
    /\ Len(fnOut.heap["encodedIcon"]) = 6
    /\ fnOut.heap["encodedIcon"][1] = 1
    /\ decode(fnOut.heap["encodedIcon"])[2] = 1

(***************************************************************************)
(* C28: the slot and the two tables                                        *)
(***************************************************************************)
\* the bitmaps and payloads the two tables hold
TableData ==
    {scaledImageCache[k].data : k \in DOMAIN scaledImageCache}
        \cup {scaledPNGImageCache[k].Data : k \in DOMAIN scaledPNGImageCache}

\* C28: in every state reached by createICNS, createICO and clearCache calls,
\* with decodes that succeed or fail: when the slot of the current input is
\* null both tables are empty, and otherwise every entry of both tables was
\* computed from the decoded bitmap of a buffer whose bytes equal the buffer
\* in the slot.
C28_SlotOwnsTables ==
    IF currentImage = Null
    THEN scaledImageCache = <<>> /\ scaledPNGImageCache = <<>>
    ELSE \A data \in TableData : ~BuffersDiffer(InputOf(data), currentImage)

\* a second call with another input has emptied the tables and filled both
\* of them again
C28_Witness ==
    /\ pc = "idle"
    /\ nCalls = 2
    /\ hist = "mixed"
    /\ currentImage # Null
    /\ call.input = currentImage
    /\ Len(ops) > 1
    /\ ops[1] = <<"clearCache", 0, 0>>
    /\ scaledImageCache # <<>>
    /\ scaledPNGImageCache # <<>>

(***************************************************************************)
(* C29: bicubic on a source whose edge is a multiple of the destination's  *)
(***************************************************************************)
BicubicDataCase == fnPc = "out" /\ fnOut.op = "bicubicData"

\* the factor k of S = k * D
FactorOf(srcImg, destRect) == srcImg.width \div destRect.Width

\* channel o % 4 of the source pixel (k * j, k * i) for destination index o
PointSample(srcImg, destRect, o) ==
    LET k == FactorOf(srcImg, destRect)
        j == (o \div 4) % destRect.Width
        i == (o \div 4) \div destRect.Width
    IN  SrcByte(srcImg.data, PixelIndex(srcImg.width, k * j, k * i) + (o % 4))

\* both source coordinates of destination index o are computed exactly
ExactCoords(srcImg, destRect, o) ==
    /\ CoordError((o \div 4) % destRect.Width, destRect.Width, srcImg.width) = 0
    /\ CoordError((o \div 4) \div destRect.Width, destRect.Width, srcImg.width) = 0

C29_OffByOne ==
    /\ BicubicDataCase
    /\ fnIn.image.width = 98
    /\ fnIn.destRect.Width = 2
    /\ \E o \in 4..7 :
           fnOut.data[o] = {PointSample(fnIn.image, fnIn.destRect, o) - 1}

(***************************************************************************)
(* C30: the loops of encode and decode advance and end                     *)
(***************************************************************************)
\* the input bytes a record stands for
Expand(r) ==
    IF r.kind = "repeat" THEN [k \in 1..(r.header - 125) |-> r.payload[1]]
    ELSE r.payload

\* the input bytes the records of bufs stand for, in their order
Expansion(bufs) ==
    LET recs == Records(bufs, 1, 0)
    IN  ConcatBufs([k \in DOMAIN recs |-> Expand(recs[k])])

\* a pass of encode's loop either pushes the tail record of the 1 or 2 bytes
\* left and leaves the loop, or pushes a repeat record and moves on by its 3
\* or more bytes, or pushes a literal record and moves on by its 2 or more
\* bytes; a pass of decode's loop moves on by 2 or more
C30_Step ==
    /\ (pbPc = "encodeLoop" /\ pbPc' = "encodeEnd") =>
           /\ pbI' = pbI
           /\ Len(pbIn) - pbI \in {1, 2}
           /\ Len(pbBufs') = Len(pbBufs) + 2
    /\ (pbPc = "encodeLoop" /\ pbPc' = "encodeLoop") =>
           /\ pbI' >= pbI + 1
           /\ pbI' <= Len(pbIn)
           /\ Len(pbBufs') = Len(pbBufs) + 1 => pbI' >= pbI + 3
           /\ Len(pbBufs') = Len(pbBufs) + 2 => pbI' >= pbI + 2
    /\ (pbPc = "decodeLoop" /\ pbPc' = "decodeLoop") => pbI' >= pbI + 2

\* the records pushed so far stand for the input bytes before the scan
\* position, and for all of them once the loop is left
C30_Cover ==
    /\ pbPc = "encodeLoop" => Expansion(pbBufs) = Slice(pbIn, 0, pbI)
    /\ pbPc = "encodeEnd" => Expansion(pbBufs) = pbIn
    /\ (pbPc = "returned" /\ pbIn # <<>>) => pbEnc = encode(pbIn)
    /\ pbPc = "returned" => pbDec = decode(pbEnc)

\* C30: encode and decode terminate on every input: every pass of encode's
\* loop ends the scan with the tail record or advances the position by at
\* least 1 (a literal run shortened by 2 still covers 2 bytes), every pass
\* of decode's loop advances by at least 2, and the records of encode cover
\* the input bytes in order without gap or overlap
C30_Terminates == [][C30_Step]_vars /\ []C30_Cover /\ <>(pbPc = "returned")

\* both loops have ended on [0, 1, 1, 1, 1], whose first record is a literal
\* run shortened by 2 to the bytes 0, 1
C30_Witness ==
    /\ pbPc = "returned"
    /\ pbIn = <<0, 1, 1, 1, 1>>
    /\ pbEnc = <<1, 0, 1, 128, 1>>
    /\ pbDec = pbIn

====
